---- MODULE Spec2Model ----
(***************************************************************************)
(* Drift detection service: the scan-job queue (drift_scan_jobs), its      *)
(* enqueuers (the behavior event handler, the scheduler tier runs and the  *)
(* scan_user task), the Celery workers that run run_drift_scan, and the    *)
(* detection orchestrator's pre-flight gates and persistence.              *)
(*                                                                         *)
(* Transactions of the handler, of a tier run and of process_pending_jobs  *)
(* are taken as one step each (they commit when their `with` block ends).  *)
(* scan_user is two steps, because it dispatches the task before its       *)
(* transaction commits.  run_drift_scan is one step per statement that     *)
(* another process can observe.                                            *)
(***************************************************************************)
EXTENDS Integers, Sequences, FiniteSets, TLC

(***************************************************************************)
(* Bounds of the model.                                                    *)
(***************************************************************************)
MaxJobs == 2          \* rows ever inserted into drift_scan_jobs
MaxTicks == 1         \* steps of the wall clock
TickStep == 3600      \* seconds per clock step
MaxCount == 2         \* largest reinforcement_count an event carries or reaches
MaxDispatch == 2      \* run_drift_scan.delay() calls in all
MaxSignals == 1       \* actionable signals one detection run produces
MaxMessages == 2      \* messages ever added to the inbound stream
MaxConnectionErrors == 1  \* connection errors of the consumer's reads
MaxDeliveries == 3    \* deliveries of one message to consumers of the group
MaxRawSignals == 3    \* raw signals handed to the aggregator
MaxDetectorFailures == 1    \* detectors that raise in one detect_drift call
MaxWindowBehaviors == 3    \* behaviors of one target in one window
MaxClock == 1    \* clock steps while detect_drift calls are under way
MaxReaperErrors == 1    \* Redis calls of the reaper that raise
MaxEventIds == 5    \* event ids handed to handle_event
max_processed_cache == 4    \* _max_processed_cache (10000 in the code)

(***************************************************************************)
(* Program constants (app/config.py defaults, scan_worker.ScanTask).       *)
(***************************************************************************)
scan_cooldown_seconds == 3600
min_behaviors_for_drift == 5
min_days_of_history == 14
active_user_days_threshold == 7
moderate_user_days_threshold == 30
max_retries == 3
dead_letter_max_delivery_attempts == 3
reconnect_max_retries == 5
reconnect_max_delay == 30
default_drift_score_threshold == 6      \* 0.6, scores are counted in tenths
moderate_drift_score == 6               \* 0.6, DriftSeverity.MODERATE_DRIFT
weak_drift_score == 3                   \* 0.3, DriftSeverity.WEAK_DRIFT
default_current_window_days == 30
default_reference_window_start_days == 60
default_reference_window_end_days == 30
SecondsPerDay == 86400
NumDetectors == 5

NULL == 0 - 1                        \* SQL NULL / Python None for timestamps
T0 == 40 * SecondsPerDay             \* wall clock when the model starts
SeedTime == T0 - 20 * SecondsPerDay  \* created_at/last_seen_at of the rows already stored

Users == {"u1"}
Workers == {"w1", "w2"}
EventBehaviorIds == {"b1"}                 \* behaviors the inbound events name
SeedBehaviorIds == {"b2", "b3", "b4", "b5"} \* behaviors already in the store
BehaviorIds == EventBehaviorIds \cup SeedBehaviorIds
ConflictIds == {"c1"}
JobIds == 1..MaxJobs
Retries == 0..max_retries
Messages == 1..MaxMessages                 \* stream ids, in the order they are added
EventIds == 1..MaxEventIds                 \* event ids the handler is called with

NoRow == [state |-> "NONE", reinforcement_count |-> 0, polarity |-> "NONE",
          created_at |-> NULL, last_seen_at |-> NULL]

VARIABLES
    now,            \* wall clock, unix seconds
    behaviors,      \* behavior_snapshots: [Users \X BehaviorIds -> row or NoRow]
    conflicts,      \* conflict_snapshots: set of <<user_id, conflict_id>>
    jobs,           \* drift_scan_jobs: sequence of rows, job_id = index
    drift_events,   \* drift_events: sequence of [user_id, detected_at]
    queue,          \* Celery queue drift_scans: [JobIds \X Retries -> number of messages]
    dispatched,     \* number of run_drift_scan.delay() calls so far
    worker,         \* [Workers -> the run_drift_scan execution in progress]
    scanUserTxn,    \* job_id inserted by a scan_user transaction not yet committed, or 0
    claims,         \* history: per job, number of executions that marked it RUNNING
    nonEmpty,       \* history: DetectDrift calls that returned a non-empty list
    drift_stream,   \* the outbound Redis stream: drift.detected publications attempted
    stream,         \* the inbound Redis stream, its consumer group and the consumer's batch
    consumer,       \* RedisConsumer: its loop position, running flag, client and reconnect loop
    reaper,         \* reap_dead_letters: the entries of XPENDING still to be looked at
    handler,        \* BehaviorEventHandler: its set of processed event ids
    aggregator,     \* one DriftAggregator: its threshold, a list of raw signals, its results
    builder,        \* one SnapshotBuilder and detect_drift call: window settings, windows, events
    detector,       \* [Workers -> a detect_drift call followed step by step]
    snapshots,      \* a reference and a current snapshot handed to one detector, and its signals
    timeouts        \* the task runs <<worker, job, retries>> Celery sent the soft time limit to

\* the inbound stream and the processes that work on it
streamVars == <<stream, consumer, reaper, handler>>

\* the parts of the detection pipeline looked at on their own, and the time
\* limits of the tasks that run it
pipelineVars == <<aggregator, builder, detector, snapshots, timeouts>>

vars == <<now, behaviors, conflicts, jobs, drift_events, queue, dispatched,
          worker, scanUserTxn, claims, nonEmpty, drift_stream, streamVars,
          pipelineVars>>

\* the tables, the queue, the workers and the streams
serviceVars == <<now, behaviors, conflicts, jobs, drift_events, queue, dispatched,
                 worker, scanUserTxn, claims, nonEmpty, drift_stream, streamVars>>

\* everything but the inbound stream and its processes
storeVars == <<now, behaviors, conflicts, jobs, drift_events, queue, dispatched,
               worker, scanUserTxn, claims, nonEmpty, drift_stream, pipelineVars>>

Max(S) == CHOOSE x \in S : \A y \in S : y <= x
Min(S) == CHOOSE x \in S : \A y \in S : x <= y

(***************************************************************************)
(* ScanJobRepository.  A row inserted by a transaction that has not yet    *)
(* committed (committed = FALSE) is invisible to every other transaction.  *)
(***************************************************************************)
JobRow(u, trigger, priority, isCommitted) ==
    [user_id |-> u, trigger_event |-> trigger, status |-> "PENDING",
     priority |-> priority, completed_at |-> NULL, committed |-> isCommitted]

VisibleJobs(js) == {j \in 1..Len(js) : js[j].committed}

enqueue(js, u, trigger, priority) == Append(js, JobRow(u, trigger, priority, TRUE))

\* SELECT COUNT(*) ... WHERE user_id = %s AND status = 'PENDING'
has_pending_job(js, u) ==
    \E j \in VisibleJobs(js) : js[j].user_id = u /\ js[j].status = "PENDING"

\* SELECT completed_at ... WHERE user_id = %s AND status = 'DONE' ORDER BY completed_at DESC LIMIT 1
get_last_completed_scan(js, u) ==
    LET done == {js[j].completed_at :
                    j \in {k \in VisibleJobs(js) : js[k].user_id = u /\ js[k].status = "DONE"}}
    IN  IF done = {} THEN NULL ELSE Max(done)

\* SELECT ... WHERE status = 'PENDING' ORDER BY priority, scheduled_at LIMIT %s
get_pending_jobs(js) == {j \in VisibleJobs(js) : js[j].status = "PENDING"}

\* UPDATE drift_scan_jobs SET status = %s [, completed_at = %s] WHERE job_id = %s
update_status(js, j, status, t) ==
    IF j \in VisibleJobs(js)
    THEN [js EXCEPT ![j].status = status,
                    ![j].completed_at =
                        IF status \in {"DONE", "FAILED", "SKIPPED"} THEN t ELSE @]
    ELSE js

(***************************************************************************)
(* BehaviorRepository.                                                     *)
(***************************************************************************)
StoredIds(bs, u) == {b \in BehaviorIds : bs[<<u, b>>] # NoRow}
ActiveIds(bs, u) == {b \in BehaviorIds : bs[<<u, b>>].state = "ACTIVE"}

count_active_behaviors(bs, u) == Cardinality(ActiveIds(bs, u))

get_earliest_behavior_date(bs, u) ==
    IF StoredIds(bs, u) = {} THEN NULL
    ELSE Min({bs[<<u, b>>].created_at : b \in StoredIds(bs, u)})

\* BehaviorRecord.__post_init__: the polarity check (the other checks hold
\* of every row of this model)
ValidRecord(row) == row.polarity \in {"POSITIVE", "NEGATIVE"}

\* get_active_behaviors builds a BehaviorRecord per ACTIVE row and so raises
\* ValueError when one of them fails __post_init__
get_active_behaviors_raises(bs, u) ==
    \E b \in ActiveIds(bs, u) : ~ValidRecord(bs[<<u, b>>])

\* INSERT ... ON CONFLICT (user_id, behavior_id) DO UPDATE SET every column
\* but created_at
upsert_behavior(bs, u, b, polarity, count, state, created_at, last_seen_at) ==
    [bs EXCEPT ![<<u, b>>] =
        [state |-> state, reinforcement_count |-> count, polarity |-> polarity,
         created_at |-> IF bs[<<u, b>>] = NoRow THEN created_at ELSE bs[<<u, b>>].created_at,
         last_seen_at |-> last_seen_at]]

\* UPDATE behavior_snapshots SET ... WHERE user_id = %s AND behavior_id = %s
update_reinforced(bs, u, b, count, last_seen_at) ==
    IF bs[<<u, b>>] = NoRow THEN bs
    ELSE [bs EXCEPT ![<<u, b>>].reinforcement_count = count,
                    ![<<u, b>>].last_seen_at = last_seen_at]

update_state(bs, u, b, state) ==
    IF bs[<<u, b>>] = NoRow THEN bs ELSE [bs EXCEPT ![<<u, b>>].state = state]

\* ConflictRepository.insert_conflict: a row keyed by (user_id, conflict_id)
insert_conflict(cs, u, c) == cs \cup {<<u, c>>}

(***************************************************************************)
(* BehaviorEventHandler.  An event is [event_type, user_id, behavior_id,   *)
(* conflict_id, polarity, count]; polarity "" and count 0 stand for a      *)
(* payload that omits the field (count is reinforcement_count of           *)
(* behavior.created and new_reinforcement_count of behavior.reinforced).   *)
(***************************************************************************)
Events ==
    [event_type : {"behavior.created"}, user_id : Users, behavior_id : EventBehaviorIds,
     conflict_id : {""}, polarity : {"", "POSITIVE"}, count : {0}]
    \cup
    [event_type : {"behavior.reinforced"}, user_id : Users, behavior_id : EventBehaviorIds,
     conflict_id : {""}, polarity : {""}, count : {0, MaxCount}]
    \cup
    [event_type : {"behavior.superseded"}, user_id : Users, behavior_id : EventBehaviorIds,
     conflict_id : {""}, polarity : {""}, count : {0}]
    \cup
    [event_type : {"behavior.conflict.resolved"}, user_id : Users, behavior_id : {""},
     conflict_id : ConflictIds, polarity : {""}, count : {0}]

\* The handler's idempotency cache.  processed_events is the set
\* _processed_events; order lists its ids in the order they were marked,
\* failed holds the ids whose latest handling raised and recovered those
\* marked after an earlier handling of them had raised (the last three are
\* kept for the properties, the code has the set only).
NothingProcessed == [processed_events |-> {}, order |-> << >>, failed |-> {},
                     recovered |-> {}]

\* list(self._processed_events)[self._max_processed_cache // 2:] when the
\* set has reached the cap: a set is listed in the order of its hash table,
\* so the slice keeps all but some max_processed_cache // 2 of the ids
Slices(pe) ==
    IF Cardinality(pe) >= max_processed_cache
    THEN {kept \in SUBSET pe :
             Cardinality(kept) = Cardinality(pe) - max_processed_cache \div 2}
    ELSE {pe}

\* the ids of a list that are in a set, in the list's order
RECURSIVE Restrict(_, _)
Restrict(order, kept) ==
    IF order = << >> THEN << >>
    ELSE IF Head(order) \in kept THEN <<Head(order)>> \o Restrict(Tail(order), kept)
    ELSE Restrict(Tail(order), kept)

\* _mark_processed, with kept the slice of the set that the eviction keeps
mark_processed(h, event_id, kept) ==
    [processed_events |-> kept \cup {event_id},
     order |-> Append(Restrict(h.order, kept), event_id),
     failed |-> h.failed \ {event_id},
     recovered |-> IF event_id \in h.failed THEN h.recovered \cup {event_id}
                   ELSE h.recovered \ {event_id}]

\* handle_event with _mark_processed ahead of the handlers
mark_then_handle(h, event_id, raises, kept) ==
    IF event_id \in h.processed_events THEN h
    ELSE IF raises
    THEN [mark_processed(h, event_id, kept) EXCEPT !.failed = @ \cup {event_id}]
    ELSE mark_processed(h, event_id, kept)

\* handle_event as far as the cache goes: a seen id returns at once; the
\* handlers run inside try, _mark_processed follows them, and an exception
\* is logged and raised again
handle_event_id(h, event_id, raises, kept) ==
    IF event_id \in h.processed_events THEN h
    ELSE IF raises THEN [h EXCEPT !.failed = @ \cup {event_id}]
    ELSE mark_processed(h, event_id, kept)

\* _maybe_enqueue_scan: the three gates, then ScanJobRepository.enqueue
maybe_enqueue_scan(bs, js, u, trigger, priority, t) ==
    LET last == get_last_completed_scan(js, u) IN
    IF has_pending_job(js, u)
    THEN [raised |-> FALSE, jobs |-> js]
    ELSE IF last # NULL /\ last # 0 /\ t - last < scan_cooldown_seconds
    THEN [raised |-> FALSE, jobs |-> js]
    ELSE IF get_active_behaviors_raises(bs, u)
    THEN [raised |-> TRUE, jobs |-> js]
    ELSE IF count_active_behaviors(bs, u) < min_behaviors_for_drift
    THEN [raised |-> FALSE, jobs |-> js]
    ELSE [raised |-> FALSE, jobs |-> enqueue(js, u, trigger, priority)]

\* the handler's block with each repository call committing by itself: what
\* was written before the gate raised stays
TransactionWithoutRollback(db, bs1, cs1, g) ==
    [behaviors |-> bs1, conflicts |-> cs1, jobs |-> g.jobs, raised |-> g.raised]

\* The end of the handler's `with get_sync_connection()` block: commit, or
\* rollback of everything the transaction wrote when the gate raised.
Transaction(db, bs1, cs1, g) ==
    IF g.raised
    THEN [behaviors |-> db.behaviors, conflicts |-> db.conflicts, jobs |-> db.jobs,
          raised |-> TRUE]
    ELSE [behaviors |-> bs1, conflicts |-> cs1, jobs |-> g.jobs,
          raised |-> FALSE]

\* a handler that returns False before it opens a transaction
Dropped(db) ==
    [behaviors |-> db.behaviors, conflicts |-> db.conflicts, jobs |-> db.jobs,
     raised |-> FALSE]

on_behavior_created(db, e, t) ==
    LET bs1 == upsert_behavior(db.behaviors, e.user_id, e.behavior_id,
                   IF e.polarity = "" THEN "NEUTRAL" ELSE e.polarity,
                   IF e.count = 0 THEN 1 ELSE e.count,
                   "ACTIVE", t, t)
    IN  Transaction(db, bs1, db.conflicts,
            maybe_enqueue_scan(bs1, db.jobs, e.user_id, "behavior.created", "NORMAL", t))

on_behavior_reinforced(db, e, t) ==
    LET row == db.behaviors[<<e.user_id, e.behavior_id>>]
        bs1 == update_reinforced(db.behaviors, e.user_id, e.behavior_id,
                   IF e.count = 0 THEN row.reinforcement_count + 1 ELSE e.count, t)
    IN  IF row = NoRow
        THEN Dropped(db)
        ELSE Transaction(db, bs1, db.conflicts,
                 maybe_enqueue_scan(bs1, db.jobs, e.user_id, "behavior.reinforced", "NORMAL", t))

on_behavior_superseded(db, e, t) ==
    LET bs1 == update_state(db.behaviors, e.user_id, e.behavior_id, "SUPERSEDED")
    IN  Transaction(db, bs1, db.conflicts,
            maybe_enqueue_scan(bs1, db.jobs, e.user_id, "behavior.superseded", "NORMAL", t))

on_conflict_resolved(db, e, t) ==
    LET cs1 == insert_conflict(db.conflicts, e.user_id, e.conflict_id)
    IN  Transaction(db, db.behaviors, cs1,
            maybe_enqueue_scan(db.behaviors, db.jobs, e.user_id,
                               "behavior.conflict.resolved", "HIGH", t))

\* handle_event for an event_id that is not in the process's seen-id set
handle_event(db, e, t) ==
    CASE e.event_type = "behavior.created" -> on_behavior_created(db, e, t)
      [] e.event_type = "behavior.reinforced" -> on_behavior_reinforced(db, e, t)
      [] e.event_type = "behavior.superseded" -> on_behavior_superseded(db, e, t)
      [] e.event_type = "behavior.conflict.resolved" -> on_conflict_resolved(db, e, t)
      [] OTHER -> Dropped(db)

Store == [behaviors |-> behaviors, conflicts |-> conflicts, jobs |-> jobs]

(***************************************************************************)
(* Scheduler: get_all_scannable_users and _enqueue_for_tier.               *)
(***************************************************************************)
get_all_scannable_users(bs, active_since, moderate_since) ==
    [active |-> {u \in Users : \E b \in ActiveIds(bs, u) :
                    bs[<<u, b>>].last_seen_at >= active_since},
     moderate |-> {u \in Users : \E b \in ActiveIds(bs, u) :
                    /\ bs[<<u, b>>].last_seen_at >= moderate_since
                    /\ bs[<<u, b>>].last_seen_at < active_since}]

\* the loop body of _enqueue_for_tier for one user
EnqueueForUser(js, u, trigger, t) ==
    LET last == get_last_completed_scan(js, u) IN
    IF has_pending_job(js, u) THEN js
    ELSE IF last # NULL /\ last # 0 /\ t - last < scan_cooldown_seconds THEN js
    ELSE enqueue(js, u, trigger, "NORMAL")

RECURSIVE EnqueueForUsers(_, _, _, _)
EnqueueForUsers(js, us, trigger, t) ==
    IF us = {} THEN js
    ELSE LET u == CHOOSE x \in us : TRUE
         IN  EnqueueForUsers(EnqueueForUser(js, u, trigger, t), us \ {u}, trigger, t)

enqueue_for_tier(bs, js, tier, t) ==
    LET users == get_all_scannable_users(bs,
                     t - active_user_days_threshold * SecondsPerDay,
                     t - moderate_user_days_threshold * SecondsPerDay)
        user_ids == IF tier = "active" THEN users.active ELSE users.moderate
    IN  EnqueueForUsers(js, user_ids, IF tier = "active" THEN "scheduled_active"
                                      ELSE "scheduled_moderate", t)

(***************************************************************************)
(* Detection orchestrator: the pre-flight gates of DriftDetector.          *)
(***************************************************************************)
\* a sufficient-data check that leaves the days of history out
validate_behavior_count_only(bs, u, t) ==
    count_active_behaviors(bs, u) >= min_behaviors_for_drift

validate_sufficient_data(bs, u, t) ==
    /\ count_active_behaviors(bs, u) >= min_behaviors_for_drift
    /\ get_earliest_behavior_date(bs, u) # NULL
    /\ t - get_earliest_behavior_date(bs, u) >= min_days_of_history * SecondsPerDay

\* SELECT MAX(detected_at) FROM drift_events WHERE user_id = %s
get_latest_detection_time(evs, u) ==
    LET at == {evs[i].detected_at : i \in {k \in 1..Len(evs) : evs[k].user_id = u}}
    IN  IF at = {} THEN NULL ELSE Max(at)

preflight_checks(bs, evs, u, t) ==
    LET last == get_latest_detection_time(evs, u) IN
    /\ validate_sufficient_data(bs, u, t)
    /\ ~(last # NULL /\ last # 0 /\ t - last < scan_cooldown_seconds)

\* _create_events and _persist_events: n rows stamped detected_at = now
RECURSIVE persist_events(_, _, _, _)
persist_events(evs, u, n, t) ==
    IF n = 0 THEN evs
    ELSE persist_events(Append(evs, [user_id |-> u, detected_at |-> t]), u, n - 1, t)

(***************************************************************************)
(* Initial state: an empty job table and event table, four behaviors of    *)
(* the user stored twenty days ago, idle workers.                          *)
(***************************************************************************)
\* a stream entry as the consumer group sees it: state is "unpublished",
\* "new" (added, never delivered), "pending" (in the pending-entries list),
\* "acked" or "dead" (moved to the dead-letter stream and acked); idle says
\* whether time_since_delivered exceeds dead_letter_idle_threshold_ms
NoEntry == [state |-> "unpublished", times_delivered |-> 0, idle |-> FALSE]

SeedRow == [state |-> "ACTIVE", reinforcement_count |-> 1, polarity |-> "POSITIVE",
            created_at |-> SeedTime, last_seen_at |-> SeedTime]

\* the pool hands a message to its first idle process (the processes are
\* interchangeable while idle)
FirstIdle == IF worker["w1"].pc = "idle" THEN "w1" ELSE "w2"

Idle == [pc |-> "idle", job_id |-> 0, retries |-> 0, n |-> 0]

\* an aggregator that has been given nothing, a builder that has built nothing
NoSignals == [drift_score_threshold |-> default_drift_score_threshold,
              signals |-> << >>, pc |-> "raw",
              actionable |-> << >>, again |-> << >>]

NoWindows == [current_window_days |-> default_current_window_days,
              reference_window_start_days |-> default_reference_window_start_days,
              reference_window_end_days |-> default_reference_window_end_days,
              pc |-> "idle", reference |-> << >>, current |-> << >>,
              events |-> << >>]

\* a detect_drift call that has not been made, a detector that has been
\* handed nothing
NotCalled == [pc |-> "idle", found |-> {}, k |-> 0, failed |-> {},
              all_signals |-> << >>, events |-> << >>, result |-> << >>]

NoSnapshots == [pc |-> "idle", intensity_delta_threshold |-> 25, reference |-> {},
                current |-> {}, all_signals |-> << >>, events |-> << >>]

\* everything but the behaviors and the scan-jobs table at start
QuietInit ==
    /\ now = T0
    /\ conflicts = {}
    /\ drift_events = << >>
    /\ queue = [k \in JobIds \X Retries |-> 0]
    /\ dispatched = 0
    /\ worker = [w \in Workers |-> Idle]
    /\ scanUserTxn = 0
    /\ claims = [j \in JobIds |-> 0]
    /\ nonEmpty = << >>
    /\ drift_stream = << >>
    /\ stream = [entries |-> [m \in Messages |-> NoEntry], batch |-> << >>,
                 deadletter |-> << >>]
    /\ consumer = [pc |-> "loop", running |-> TRUE, redis_client |-> "connected",
                   attempt |-> 0, retry_delay |-> 1, slept |-> << >>,
                   connection_errors |-> 0, handled |-> {}]
    /\ reaper = [pending_entries |-> << >>, errors |-> 0]
    /\ handler = NothingProcessed
    /\ timeouts = {}

\* everything but the behaviors table at start
EmptyInit ==
    /\ QuietInit
    /\ jobs = << >>

\* the service's tables, queue, workers, streams and consumer at start
ServiceInit ==
    /\ EmptyInit
    /\ behaviors = [k \in Users \X BehaviorIds |->
                        IF k[2] \in SeedBehaviorIds THEN SeedRow ELSE NoRow]

Init ==
    /\ ServiceInit
    /\ aggregator = NoSignals
    /\ builder = NoWindows
    /\ detector = [w \in Workers |-> NotCalled]
    /\ snapshots = NoSnapshots

\* The clock advances in steps of TickStep seconds.  A step is longer than
\* a task may run (celery_task_time_limit) or wait for a retry
\* (retry_backoff_max), so it is taken when no task is queued or running
\* and no transaction is open.
Tick ==
    /\ now < T0 + MaxTicks * TickStep
    /\ \A w \in Workers : worker[w].pc = "idle"
    /\ scanUserTxn = 0
    /\ \A k \in JobIds \X Retries : queue[k] = 0
    /\ now' = now + TickStep
    /\ UNCHANGED <<behaviors, conflicts, jobs, drift_events, queue, dispatched,
                   worker, scanUserTxn, claims, nonEmpty,
                   drift_stream, streamVars, pipelineVars>>

(***************************************************************************)
(* Enqueuers.                                                              *)
(***************************************************************************)
\* RedisConsumer._process_event -> BehaviorEventHandler.handle_event
HandleEvent(e) ==
    LET r == handle_event(Store, e, now) IN
    /\ e.event_type = "behavior.reinforced" /\ e.count = 0
          => behaviors[<<e.user_id, e.behavior_id>>].reinforcement_count < MaxCount
    /\ Len(r.jobs) <= MaxJobs
    /\ behaviors' = r.behaviors
    /\ conflicts' = r.conflicts
    /\ jobs' = r.jobs
    /\ UNCHANGED <<now, drift_events, queue, dispatched, worker, scanUserTxn,
                   claims, nonEmpty,
                   drift_stream, streamVars, pipelineVars>>

\* scan_active_users / scan_moderate_users -> _enqueue_for_tier
ScanTier(tier) ==
    LET js1 == enqueue_for_tier(behaviors, jobs, tier, now) IN
    /\ Len(js1) <= MaxJobs
    /\ jobs' = js1
    /\ UNCHANGED <<now, behaviors, conflicts, drift_events, queue, dispatched,
                   worker, scanUserTxn, claims, nonEmpty,
                   drift_stream, streamVars, pipelineVars>>

\* scan_user up to run_drift_scan.delay(job_id): the row is inserted but the
\* transaction has not committed yet
ScanUserDispatch(u) ==
    /\ scanUserTxn = 0
    /\ ~has_pending_job(jobs, u)
    /\ Len(jobs) < MaxJobs
    /\ dispatched < MaxDispatch
    /\ jobs' = Append(jobs, JobRow(u, "manual_trigger", "NORMAL", FALSE))
    /\ queue' = [queue EXCEPT ![<<Len(jobs) + 1, 0>>] = @ + 1]
    /\ dispatched' = dispatched + 1
    /\ scanUserTxn' = Len(jobs) + 1
    /\ UNCHANGED <<now, behaviors, conflicts, drift_events, worker, claims,
                   nonEmpty,
                   drift_stream, streamVars, pipelineVars>>

\* scan_user: the end of its `with` block commits the insert
ScanUserCommit ==
    /\ scanUserTxn # 0
    /\ jobs' = [jobs EXCEPT ![scanUserTxn].committed = TRUE]
    /\ scanUserTxn' = 0
    /\ UNCHANGED <<now, behaviors, conflicts, drift_events, queue, dispatched,
                   worker, claims, nonEmpty,
                   drift_stream, streamVars, pipelineVars>>

\* process_pending_jobs: one run_drift_scan task per pending job
ProcessPendingJobs ==
    LET pending == get_pending_jobs(jobs) IN
    /\ pending # {}
    /\ dispatched + Cardinality(pending) <= MaxDispatch
    /\ queue' = [k \in JobIds \X Retries |->
                    IF k[1] \in pending /\ k[2] = 0 THEN queue[k] + 1 ELSE queue[k]]
    /\ dispatched' = dispatched + Cardinality(pending)
    /\ UNCHANGED <<now, behaviors, conflicts, jobs, drift_events, worker,
                   scanUserTxn, claims, nonEmpty,
                   drift_stream, streamVars, pipelineVars>>

(***************************************************************************)
(* Celery worker: run_drift_scan, one step per statement another process   *)
(* can observe.  A message of the queue is <<job_id, retries>>.            *)
(***************************************************************************)
\* ScanTask: autoretry_for = (Exception,), max_retries = 3
Retry(q, j, r) ==
    IF r < max_retries THEN [q EXCEPT ![<<j, r + 1>>] = @ + 1] ELSE q

\* get_job_by_id finds no row: ValueError, caught by the outer handler
RunNotFound(w, j, r) ==
    /\ worker[w].pc = "idle"
    /\ w = FirstIdle
    /\ queue[<<j, r>>] > 0
    /\ j \notin VisibleJobs(jobs)
    /\ queue' = [queue EXCEPT ![<<j, r>>] = @ - 1]
    /\ worker' = [worker EXCEPT ![w] = [pc |-> "fatal", job_id |-> j, retries |-> r, n |-> 0]]
    /\ UNCHANGED <<now, behaviors, conflicts, jobs, drift_events, dispatched,
                   scanUserTxn, claims, nonEmpty,
                   drift_stream, streamVars, pipelineVars>>

\* job["status"] != "PENDING": return {"skipped": True}
RunSkipped(w, j, r) ==
    /\ worker[w].pc = "idle"
    /\ w = FirstIdle
    /\ queue[<<j, r>>] > 0
    /\ j \in VisibleJobs(jobs)
    /\ jobs[j].status # "PENDING"
    /\ queue' = [queue EXCEPT ![<<j, r>>] = @ - 1]
    /\ UNCHANGED <<now, behaviors, conflicts, jobs, drift_events, dispatched,
                   worker, scanUserTxn, claims, nonEmpty,
                   drift_stream, streamVars, pipelineVars>>

\* get_job_by_id returns a row whose status is PENDING
RunLoad(w, j, r) ==
    /\ worker[w].pc = "idle"
    /\ w = FirstIdle
    /\ queue[<<j, r>>] > 0
    /\ j \in VisibleJobs(jobs)
    /\ jobs[j].status = "PENDING"
    /\ queue' = [queue EXCEPT ![<<j, r>>] = @ - 1]
    /\ worker' = [worker EXCEPT ![w] = [pc |-> "loaded", job_id |-> j, retries |-> r, n |-> 0]]
    /\ UNCHANGED <<now, behaviors, conflicts, jobs, drift_events, dispatched,
                   scanUserTxn, claims, nonEmpty,
                   drift_stream, streamVars, pipelineVars>>

\* scan_repo.update_status(job_id, "RUNNING") and the commit of the first block
RunMarkRunning(w) ==
    /\ worker[w].pc = "loaded"
    /\ jobs' = update_status(jobs, worker[w].job_id, "RUNNING", now)
    /\ claims' = [claims EXCEPT ![worker[w].job_id] = @ + 1]
    /\ worker' = [worker EXCEPT ![w].pc = "marked"]
    /\ UNCHANGED <<now, behaviors, conflicts, drift_events, queue, dispatched,
                   scanUserTxn, nonEmpty,
                   drift_stream, streamVars, pipelineVars>>

\* the outer `except Exception`: update_status(job_id, "FAILED"), re-raise
RunFatal(w) ==
    /\ worker[w].pc = "fatal"
    /\ jobs' = update_status(jobs, worker[w].job_id, "FAILED", now)
    /\ queue' = Retry(queue, worker[w].job_id, worker[w].retries)
    /\ worker' = [worker EXCEPT ![w] = Idle]
    /\ UNCHANGED <<now, behaviors, conflicts, drift_events, dispatched,
                   scanUserTxn, claims, nonEmpty,
                   drift_stream, streamVars, pipelineVars>>

\* detector.detect_drift(user_id) up to the detectors' result: the pre-flight
\* checks, then n actionable signals (n depends on the user's data)
DetectBegin(w) ==
    /\ worker[w].pc = "marked"
    /\ IF preflight_checks(behaviors, drift_events, jobs[worker[w].job_id].user_id, now)
       THEN \E n \in 0..MaxSignals :
                worker' = [worker EXCEPT ![w].pc = "detecting", ![w].n = n]
       ELSE worker' = [worker EXCEPT ![w].pc = "detected", ![w].n = 0]
    /\ UNCHANGED <<now, behaviors, conflicts, jobs, drift_events, queue, dispatched,
                   scanUserTxn, claims, nonEmpty,
                   drift_stream, streamVars, pipelineVars>>

\* _create_events, _persist_events and the return of detect_drift.
\* _persist_events calls drift_event_repo.insert for each event; neither it
\* nor run_drift_scan calls DriftEventWriter, the only code that adds to the
\* outbound stream, so the stream is left as it was.
DetectEnd(w) ==
    LET u == jobs[worker[w].job_id].user_id IN
    /\ worker[w].pc = "detecting"
    /\ drift_events' = persist_events(drift_events, u, worker[w].n, now)
    /\ nonEmpty' = IF worker[w].n > 0
                   THEN Append(nonEmpty, [user_id |-> u, at |-> now])
                   ELSE nonEmpty
    /\ worker' = [worker EXCEPT ![w].pc = "detected"]
    /\ UNCHANGED <<now, behaviors, conflicts, jobs, queue, dispatched,
                   scanUserTxn, claims,
                   drift_stream, streamVars, pipelineVars>>

\* scan_repo.update_status(job_id, "DONE") and the task's return
ScanDone(w) ==
    /\ worker[w].pc = "detected"
    /\ jobs' = update_status(jobs, worker[w].job_id, "DONE", now)
    /\ worker' = [worker EXCEPT ![w] = Idle]
    /\ UNCHANGED <<now, behaviors, conflicts, drift_events, queue, dispatched,
                   scanUserTxn, claims, nonEmpty,
                   drift_stream, streamVars, pipelineVars>>

\* the pipeline raises (SoftTimeLimitExceeded or any Exception): the inner
\* handler marks the job FAILED and re-raises, the outer handler marks it
\* FAILED again, and Celery retries the task
ScanFails(w) ==
    /\ worker[w].pc \in {"marked", "detecting"}
    /\ jobs' = update_status(jobs, worker[w].job_id, "FAILED", now)
    /\ queue' = Retry(queue, worker[w].job_id, worker[w].retries)
    /\ worker' = [worker EXCEPT ![w] = Idle]
    /\ UNCHANGED <<now, behaviors, conflicts, drift_events, dispatched,
                   scanUserTxn, claims, nonEmpty,
                   drift_stream, streamVars, pipelineVars>>

Next ==
    \/ Tick
    \/ \E e \in Events : HandleEvent(e)
    \/ \E tier \in {"active", "moderate"} : ScanTier(tier)
    \/ \E u \in Users : ScanUserDispatch(u)
    \/ ScanUserCommit
    \/ ProcessPendingJobs
    \/ \E w \in Workers, j \in JobIds, r \in Retries : RunNotFound(w, j, r)
    \/ \E w \in Workers, j \in JobIds, r \in Retries : RunSkipped(w, j, r)
    \/ \E w \in Workers, j \in JobIds, r \in Retries : RunLoad(w, j, r)
    \/ \E w \in Workers : RunMarkRunning(w)
    \/ \E w \in Workers : RunFatal(w)
    \/ \E w \in Workers : DetectBegin(w)
    \/ \E w \in Workers : DetectEnd(w)
    \/ \E w \in Workers : ScanDone(w)
    \/ \E w \in Workers : ScanFails(w)

Spec == Init /\ [][Next]_vars

\* What runs without being asked: a Celery worker takes the tasks of its
\* queue and carries each one through, and scan_user's block ends.  Nothing
\* in the service schedules process_pending_jobs (the scheduler's jobs are
\* scan_active_users, scan_moderate_users and reap_dead_letters), so it is
\* run when somebody sends the task, like scan_user.
WorkerFairness ==
    /\ \A w \in Workers, j \in JobIds, r \in Retries :
          /\ WF_vars(RunNotFound(w, j, r))
          /\ WF_vars(RunSkipped(w, j, r))
          /\ WF_vars(RunLoad(w, j, r))
    /\ \A w \in Workers :
          /\ WF_vars(RunMarkRunning(w))
          /\ WF_vars(RunFatal(w))
          /\ WF_vars(DetectBegin(w))
          /\ WF_vars(DetectEnd(w))
          /\ WF_vars(ScanDone(w))
    /\ WF_vars(ScanUserCommit)

\* the queue while the clock stands still
DrainNext ==
    \/ \E e \in Events : HandleEvent(e)
    \/ \E tier \in {"active", "moderate"} : ScanTier(tier)
    \/ \E u \in Users : ScanUserDispatch(u)
    \/ ScanUserCommit
    \/ ProcessPendingJobs
    \/ \E w \in Workers, j \in JobIds, r \in Retries : RunNotFound(w, j, r)
    \/ \E w \in Workers, j \in JobIds, r \in Retries : RunSkipped(w, j, r)
    \/ \E w \in Workers, j \in JobIds, r \in Retries : RunLoad(w, j, r)
    \/ \E w \in Workers : RunMarkRunning(w)
    \/ \E w \in Workers : RunFatal(w)
    \/ \E w \in Workers : DetectBegin(w)
    \/ \E w \in Workers : DetectEnd(w)
    \/ \E w \in Workers : ScanDone(w)
    \/ \E w \in Workers : ScanFails(w)

DrainSpec == Init /\ [][DrainNext]_vars /\ WorkerFairness

(***************************************************************************)
(* Inbound stream: the producer's XADD, RedisConsumer and the dead-letter  *)
(* reaper.  The store is left alone here; what the handler does to it is   *)
(* HandleEvent above, and whether it raises is all the stream sees.        *)
(***************************************************************************)
RECURSIVE InOrder(_)
InOrder(S) == IF S = {} THEN << >> ELSE <<Min(S)>> \o InOrder(S \ {Min(S)})

\* a producer adds the next message to the stream
XAdd(m) ==
    /\ stream.entries[m].state = "unpublished"
    /\ \A k \in Messages : k < m => stream.entries[k].state # "unpublished"
    /\ stream' = [stream EXCEPT !.entries[m].state = "new"]
    /\ UNCHANGED <<storeVars, consumer, reaper, handler>>

\* disconnect: close the client if there is one and set it to None
disconnect(c) == [c EXCEPT !.redis_client = "None"]

\* stop: running = False, then disconnect
stop(c) == disconnect([c EXCEPT !.running = FALSE])

\* _signal_handler: SIGINT or SIGTERM arrives; Python runs the handler
\* between two bytecodes of the main thread, wherever the consumer is
SignalHandler ==
    /\ consumer.pc # "stopped"
    /\ consumer.running
    /\ consumer' = stop(consumer)
    /\ UNCHANGED <<storeVars, stream, reaper, handler>>

\* _consume_batch: XREADGROUP with id ">" returns the messages never
\* delivered to the group and puts them in the pending-entries list
ConsumeBatch ==
    LET fresh == {m \in Messages : stream.entries[m].state = "new"} IN
    /\ consumer.pc = "loop"
    /\ consumer.running
    /\ consumer.redis_client = "connected"
    /\ stream.batch = << >>
    /\ fresh # {}
    /\ stream' = [entries |-> [m \in Messages |->
                      IF m \in fresh
                      THEN [state |-> "pending", times_delivered |-> 1, idle |-> FALSE]
                      ELSE stream.entries[m]],
                  batch |-> InOrder(fresh),
                  deadletter |-> stream.deadletter]
    /\ UNCHANGED <<storeVars, consumer, reaper, handler>>

\* _consume_batch: XREADGROUP raises redis.ConnectionError, which start
\* answers with _reconnect (max_retries = 5, retry_delay = 1)
ConnectionError ==
    /\ consumer.pc = "loop"
    /\ consumer.running
    /\ consumer.redis_client = "connected"
    /\ stream.batch = << >>
    /\ consumer.connection_errors < MaxConnectionErrors
    /\ consumer' = [consumer EXCEPT !.pc = "reconnect", !.attempt = 0,
                                    !.retry_delay = 1, !.slept = << >>,
                                    !.connection_errors = @ + 1]
    /\ UNCHANGED <<storeVars, stream, reaper, handler>>

\* one iteration of the loop of _reconnect: disconnect, sleep retry_delay,
\* then connect and ensure_consumer_group, which succeed (return) or raise
\* (the delay doubles, capped at reconnect_max_delay); connect leaves a
\* client object behind even when its ping raises
ReconnectAttempt ==
    /\ consumer.pc = "reconnect"
    /\ consumer.attempt < reconnect_max_retries
    /\ \E ok \in BOOLEAN :
          LET c == [disconnect(consumer) EXCEPT
                        !.slept = Append(@, consumer.retry_delay)] IN
          consumer' = IF ok
                      THEN [c EXCEPT !.redis_client = "connected", !.pc = "loop"]
                      ELSE [c EXCEPT !.redis_client = "unreachable",
                                     !.attempt = @ + 1,
                                     !.retry_delay = Min({@ * 2, reconnect_max_delay})]
    /\ UNCHANGED <<storeVars, stream, reaper, handler>>

\* a _reconnect that returns after max_retries failed attempts without
\* calling stop
ReconnectGiveUpWithoutStop ==
    /\ consumer.pc = "reconnect"
    /\ consumer.attempt = reconnect_max_retries
    /\ consumer' = [consumer EXCEPT !.pc = "loop", !.redis_client = "connected"]
    /\ UNCHANGED <<storeVars, stream, reaper, handler>>

\* _reconnect after max_retries failed attempts: stop
ReconnectGiveUp ==
    /\ consumer.pc = "reconnect"
    /\ consumer.attempt = reconnect_max_retries
    /\ consumer' = [stop(consumer) EXCEPT !.pc = "loop"]
    /\ UNCHANGED <<storeVars, stream, reaper, handler>>

\* start: the test of "while self.running" fails, the loop ends and the
\* finally clause calls stop
LoopExit ==
    /\ consumer.pc = "loop"
    /\ ~consumer.running
    /\ stream.batch = << >>
    /\ consumer' = [stop(consumer) EXCEPT !.pc = "stopped"]
    /\ UNCHANGED <<storeVars, stream, reaper, handler>>

\* XACK: removes the id from the pending-entries list
xack(entries, m) ==
    IF entries[m].state = "pending" THEN [entries EXCEPT ![m].state = "acked"]
    ELSE entries

\* _ack_event: returns at once when there is no client, else XACK
ack_event(c, entries, m) ==
    IF c.redis_client = "None" THEN entries ELSE xack(entries, m)

\* _process_event: handle_event returns, _ack_event
ProcessEventOk ==
    /\ stream.batch # << >>
    /\ stream' = [entries |-> ack_event(consumer, stream.entries, Head(stream.batch)),
                  batch |-> Tail(stream.batch),
                  deadletter |-> stream.deadletter]
    /\ consumer' = [consumer EXCEPT !.handled = @ \cup {Head(stream.batch)}]
    /\ \E kept \in Slices(handler.processed_events) :
          handler' = handle_event_id(handler, Head(stream.batch), FALSE, kept)
    /\ UNCHANGED <<storeVars, reaper>>

\* _process_event: handle_event raises, the exception is logged, no XACK
ProcessEventRaises ==
    /\ stream.batch # << >>
    /\ stream' = [stream EXCEPT !.batch = Tail(stream.batch)]
    /\ handler' = handle_event_id(handler, Head(stream.batch), TRUE, {})
    /\ UNCHANGED <<storeVars, consumer, reaper>>

\* time passes: a pending entry's idle time exceeds the threshold
IdleElapses(m) ==
    /\ stream.entries[m].state = "pending"
    /\ ~stream.entries[m].idle
    /\ stream' = [stream EXCEPT !.entries[m].idle = TRUE]
    /\ UNCHANGED <<storeVars, consumer, reaper, handler>>

\* XPENDING: the pending-entries list in id order, each entry with its
\* time_since_delivered (as idle) and times_delivered
xpending_range(entries) ==
    LET ids == InOrder({m \in Messages : entries[m].state = "pending"}) IN
    [i \in DOMAIN ids |-> [message_id |-> ids[i],
                           idle |-> entries[ids[i]].idle,
                           times_delivered |-> entries[ids[i]].times_delivered]]

\* is_dead of reap_dead_letters, on an entry of XPENDING
is_dead(entry) ==
    /\ entry.idle
    /\ entry.times_delivered >= dead_letter_max_delivery_attempts

\* XAUTOCLAIM with count = 1: the first pending entry at or after start_id
\* whose idle time has reached min_idle_time, or NULL
xautoclaim(entries, start_id) ==
    LET found == {m \in Messages : /\ m >= start_id
                                   /\ entries[m].state = "pending"
                                   /\ entries[m].idle} IN
    IF found = {} THEN NULL ELSE Min(found)

\* reap_dead_letters up to the loop: XPENDING is read once (APScheduler
\* runs one instance of the job at a time)
ReapDeadLetters ==
    /\ reaper.pending_entries = << >>
    /\ \E m \in Messages : stream.entries[m].state = "pending"
    /\ reaper' = [reaper EXCEPT !.pending_entries = xpending_range(stream.entries)]
    /\ UNCHANGED <<storeVars, stream, consumer, handler>>

\* the try block of one iteration of reap_dead_letters with the XADD and
\* the XACK the other way round
ack_then_move_to_dead_letter(s, msg_id, raised) ==
    LET claimed == [s EXCEPT !.entries[msg_id].times_delivered = @ + 1,
                             !.entries[msg_id].idle = FALSE]
        acked == [claimed EXCEPT !.entries[msg_id].state = "dead"] IN
    IF raised = "xautoclaim" THEN s
    ELSE IF raised = "xack" THEN claimed
    ELSE IF raised = "xadd" THEN acked
    ELSE [acked EXCEPT !.deadletter = Append(@, msg_id)]

\* the try block of one iteration of reap_dead_letters: XAUTOCLAIM has
\* msg_id for its reply (the claim counts as a delivery), the fields of
\* msg_id are added to the dead-letter stream, then msg_id is acked.
\* raised is the call that raises, "" if none does; `except Exception`
\* logs and continues with the next entry
move_to_dead_letter(s, msg_id, raised) ==
    LET claimed == [s EXCEPT !.entries[msg_id].times_delivered = @ + 1,
                             !.entries[msg_id].idle = FALSE]
        added == [claimed EXCEPT !.deadletter = Append(@, msg_id)] IN
    IF raised = "xautoclaim" THEN s
    ELSE IF raised = "xadd" THEN claimed
    ELSE IF raised = "xack" THEN added
    ELSE [added EXCEPT !.entries[msg_id].state = "dead"]

\* one iteration of the loop of reap_dead_letters: an entry that was dead
\* when XPENDING was read is the start_id of an XAUTOCLAIM, and the message
\* that XAUTOCLAIM returns is added to the dead-letter stream and acked
ReapEntry ==
    LET entry == Head(reaper.pending_entries)
        msg_id == xautoclaim(stream.entries, entry.message_id) IN
    /\ reaper.pending_entries # << >>
    /\ IF is_dead(entry) /\ msg_id # NULL
       THEN \E raised \in {"", "xautoclaim", "xadd", "xack"} :
               /\ raised # "" => reaper.errors < MaxReaperErrors
               /\ stream' = move_to_dead_letter(stream, msg_id, raised)
               /\ reaper' = [reaper EXCEPT !.pending_entries = Tail(@),
                                           !.errors = IF raised = "" THEN @ ELSE @ + 1]
       ELSE /\ stream' = stream
            /\ reaper' = [reaper EXCEPT !.pending_entries = Tail(@)]
    /\ UNCHANGED <<storeVars, consumer, handler>>

StreamNext ==
    \/ \E m \in Messages : XAdd(m)
    \/ SignalHandler
    \/ ConsumeBatch
    \/ ConnectionError
    \/ ReconnectAttempt
    \/ ReconnectGiveUp
    \/ LoopExit
    \/ ProcessEventOk
    \/ ProcessEventRaises
    \/ \E m \in Messages : IdleElapses(m)
    \/ ReapDeadLetters
    \/ ReapEntry

\* the consumer loop keeps running, time passes, and the scheduler keeps
\* starting the reaper
StreamFairness ==
    /\ WF_vars(ConsumeBatch)
    /\ WF_vars(ProcessEventOk \/ ProcessEventRaises)
    /\ \A m \in Messages : WF_vars(IdleElapses(m))
    /\ WF_vars(ReapDeadLetters)
    /\ WF_vars(ReapEntry)

StreamSpec == Init /\ [][StreamNext]_vars /\ StreamFairness

\* XCLAIM by another consumer of the group: the entry is delivered once
\* more and its idle time starts again
XClaim(m) ==
    /\ stream.entries[m].state = "pending"
    /\ stream.entries[m].times_delivered < MaxDeliveries
    /\ stream' = [stream EXCEPT !.entries[m].times_delivered = @ + 1,
                                !.entries[m].idle = FALSE]
    /\ UNCHANGED <<storeVars, consumer, reaper, handler>>

\* the stream shared with other consumers of the group, which claim
\* pending entries while the service's consumer and reaper run
GroupNext ==
    \/ StreamNext
    \/ \E m \in Messages : XClaim(m)

GroupSpec == Init /\ [][GroupNext]_vars

\* the reaper at work on the pending-entries list of a group whose
\* consumers stay connected and whose handler raises for every message (the
\* messages that stay pending and end up dead)
ReapNext ==
    \/ \E m \in Messages : XAdd(m)
    \/ ConsumeBatch
    \/ ProcessEventRaises
    \/ \E m \in Messages : IdleElapses(m)
    \/ \E m \in Messages : XClaim(m)
    \/ ReapDeadLetters
    \/ ReapEntry

ReapSpec == Init /\ [][ReapNext]_vars

(***************************************************************************)
(* The handler's idempotency cache on its own: handle_event is called with *)
(* event ids in any order, an id any number of times (a message left       *)
(* pending is delivered again), and the handlers raise or return.          *)
(***************************************************************************)
HandleEventId(event_id, raises) ==
    /\ \E kept \in Slices(handler.processed_events) :
          handler' = handle_event_id(handler, event_id, raises, kept)
    /\ UNCHANGED <<storeVars, stream, consumer, reaper>>

SeenNext == \E event_id \in EventIds, raises \in BOOLEAN : HandleEventId(event_id, raises)

SeenSpec == Init /\ [][SeenNext]_vars

(***************************************************************************)
(* DriftAggregator.aggregate on its own.  A signal is a record of its      *)
(* identity (id(signal): its position in the raw list), its drift_score in *)
(* tenths and its list of affected_targets.                                *)
(***************************************************************************)
Targets == {"x", "y"}
TargetLists == {<< >>, <<"x">>, <<"y">>, <<"x", "y">>, <<"y", "x">>}
Scores == {5, 7, 9}
Thresholds == {3, 5, 6, 8}

\* the raw lists of n signals, the i-th with identity i
RawSignals(n) ==
    {[i \in 1..n |-> [id |-> i, drift_score |-> f[i][1], affected_targets |-> f[i][2]]] :
        f \in [1..n -> Scores \X TargetLists]}

Covers(signal, target) ==
    \E i \in DOMAIN signal.affected_targets : signal.affected_targets[i] = target

\* the keys of target_groups in insertion order: the targets in the order
\* in which the loop over the signals and their affected_targets meets them
RECURSIVE AllTargets(_)
AllTargets(signals) ==
    IF signals = << >> THEN << >>
    ELSE Head(signals).affected_targets \o AllTargets(Tail(signals))

RECURSIVE FirstOccurrences(_)
FirstOccurrences(ts) ==
    IF ts = << >> THEN << >>
    ELSE LET Other(t) == t # Head(ts) IN
         <<Head(ts)>> \o FirstOccurrences(SelectSeq(Tail(ts), Other))

\* target_groups[target]: the signals that name the target, in list order
target_group(signals, target) ==
    LET Named(signal) == Covers(signal, target) IN SelectSeq(signals, Named)

\* list.sort(key=drift_score, reverse=True): descending and stable, equal
\* scores keep their order
RECURSIVE sort_by_score(_)
sort_by_score(signals) ==
    IF signals = << >> THEN << >>
    ELSE LET top == Max({signals[i].drift_score : i \in DOMAIN signals})
             k == Min({i \in DOMAIN signals : signals[i].drift_score = top}) IN
         <<signals[k]>> \o
         sort_by_score([i \in 1..(Len(signals) - 1) |->
                            IF i < k THEN signals[i] ELSE signals[i + 1]])

\* step 2: for each target the best signal of its group, appended unless
\* the same object has been appended already (processed_signals)
RECURSIVE deduplicate(_, _, _)
deduplicate(signals, targets, deduplicated) ==
    IF targets = << >> THEN deduplicated
    ELSE LET best_signal == Head(sort_by_score(target_group(signals, Head(targets))))
             processed == \E i \in DOMAIN deduplicated :
                              deduplicated[i].id = best_signal.id IN
         deduplicate(signals, Tail(targets),
                     IF processed THEN deduplicated
                     ELSE Append(deduplicated, best_signal))

\* DriftSignal.is_actionable: severity MODERATE_DRIFT or STRONG_DRIFT
is_actionable(signal) == signal.drift_score >= moderate_drift_score

\* an aggregate whose filter leaves the threshold out
aggregate_actionable_only(signals, threshold) ==
    LET deduplicated == deduplicate(signals, FirstOccurrences(AllTargets(signals)), << >>) IN
    sort_by_score(SelectSeq(deduplicated, is_actionable))

\* DriftAggregator.aggregate
aggregate(signals, threshold) ==
    LET deduplicated == deduplicate(signals, FirstOccurrences(AllTargets(signals)), << >>)
        Kept(signal) == signal.drift_score >= threshold /\ is_actionable(signal) IN
    sort_by_score(SelectSeq(deduplicated, Kept))

\* an aggregator built with a threshold the settings accept and handed a
\* list of raw signals
AggregateInit ==
    /\ ServiceInit
    /\ builder = NoWindows
    /\ detector = [w \in Workers |-> NotCalled]
    /\ snapshots = NoSnapshots
    /\ \E th \in Thresholds, n \in 0..MaxRawSignals :
          \E raw \in RawSignals(n) :
              aggregator = [NoSignals EXCEPT !.drift_score_threshold = th,
                                             !.signals = raw]

\* aggregator.aggregate(all_signals)
Aggregate ==
    /\ aggregator.pc = "raw"
    /\ aggregator' = [aggregator EXCEPT
           !.pc = "aggregated",
           !.actionable = aggregate(aggregator.signals, aggregator.drift_score_threshold)]
    /\ UNCHANGED <<serviceVars, builder, detector, snapshots, timeouts>>

\* aggregate applied to its own result
AggregateAgain ==
    /\ aggregator.pc = "aggregated"
    /\ aggregator' = [aggregator EXCEPT
           !.pc = "again",
           !.again = aggregate(aggregator.actionable, aggregator.drift_score_threshold)]
    /\ UNCHANGED <<serviceVars, builder, detector, snapshots, timeouts>>

AggregateNext ==
    \/ Aggregate
    \/ AggregateAgain

AggregateSpec == AggregateInit /\ [][AggregateNext]_vars

(***************************************************************************)
(* SnapshotBuilder.build_reference_and_current and the events that         *)
(* detect_drift makes from its windows, on their own.                      *)
(***************************************************************************)
\* values of the three window settings; Settings declares them as int
\* with no bound and no validator, so every combination is accepted
WindowDays == {0, 15, 30, 60}

\* now - timedelta(days = d), as a unix timestamp
days_ago(t, d) == t - d * SecondsPerDay

\* build_snapshot raises ValueError for a window with start >= end
invalid_window(w) == w.window_start >= w.window_end

RECURSIVE create_events(_, _, _, _)
create_events(events, reference, current, n) ==
    IF n = 0 THEN events
    ELSE create_events(Append(events,
                              [reference_window_start |-> reference.window_start,
                               reference_window_end |-> reference.window_end,
                               current_window_start |-> current.window_start,
                               current_window_end |-> current.window_end]),
                       reference, current, n - 1)

\* a detector built with window settings that Settings accepts
BuilderInit ==
    /\ ServiceInit
    /\ aggregator = NoSignals
    /\ detector = [w \in Workers |-> NotCalled]
    /\ snapshots = NoSnapshots
    /\ builder \in {[NoWindows EXCEPT !.current_window_days = c,
                                      !.reference_window_start_days = rs,
                                      !.reference_window_end_days = re] :
                       c \in WindowDays, rs \in WindowDays, re \in WindowDays}

\* step 2 of detect_drift: build_reference_and_current; a ValueError of
\* build_snapshot makes detect_drift return the empty list
BuildReferenceAndCurrent ==
    LET current == [window_start |-> days_ago(now, builder.current_window_days),
                    window_end |-> now]
        reference == [window_start |-> days_ago(now, builder.reference_window_start_days),
                      window_end |-> days_ago(now, builder.reference_window_end_days)] IN
    /\ builder.pc = "idle"
    /\ builder' = IF invalid_window(reference) \/ invalid_window(current)
                  THEN [builder EXCEPT !.pc = "returned"]
                  ELSE [builder EXCEPT !.pc = "built", !.reference = reference,
                                       !.current = current]
    /\ UNCHANGED <<serviceVars, aggregator, detector, snapshots, timeouts>>

\* steps 3 to 6 of detect_drift: n actionable signals become n events
\* that carry the windows of the two snapshots, and are persisted
CreateEvents ==
    /\ builder.pc = "built"
    /\ \E n \in 0..MaxSignals :
          builder' = [builder EXCEPT
              !.pc = "returned",
              !.events = create_events(@, builder.reference, builder.current, n)]
    /\ UNCHANGED <<serviceVars, aggregator, detector, snapshots, timeouts>>

BuilderNext ==
    \/ BuildReferenceAndCurrent
    \/ CreateEvents

BuilderSpec == BuilderInit /\ [][BuilderNext]_vars

(***************************************************************************)
(* DriftDetector.detect_drift step by step, called by both workers for the *)
(* same user.  The five detectors are deterministic in the two snapshots,  *)
(* so a pair of snapshots is given by the set of detectors that find a     *)
(* signal in it; a detector may also raise.  The snapshot builder gets its *)
(* repositories injected: with BehaviorRepository as it stands the build   *)
(* raises (get_behaviors_in_window takes no active_only), with a           *)
(* repository that takes the keyword it succeeds; both outcomes are kept.  *)
(***************************************************************************)
\* self.detectors: TopicEmergence, TopicAbandonment, PreferenceReversal,
\* IntensityShift, ContextShift
Detectors == 1..NumDetectors

\* which detectors find a signal in the snapshots that are built
Findings == {{}, {2}, {1, 3, 4}}

\* the signal detector d returns when it finds one: detector 2 a weak one
detector_signal(d) ==
    [id |-> d,
     drift_score |-> IF d = 2 THEN 5 ELSE IF d = 3 THEN 9 ELSE 7,
     affected_targets |-> IF d \in {1, 3} THEN <<"x">> ELSE <<"y">>]

\* the user's rows when detect_drift is called: four or five active
\* behaviors, twenty or ten days old, b1 possibly superseded
DetectStores ==
    {[k \in Users \X BehaviorIds |->
         IF k[2] \in SeedBehaviorIds
         THEN [SeedRow EXCEPT !.created_at = T0 - age * SecondsPerDay,
                              !.last_seen_at = T0 - age * SecondsPerDay]
         ELSE IF b1 = "NONE" THEN NoRow
         ELSE [SeedRow EXCEPT !.state = b1,
                              !.created_at = T0 - age * SecondsPerDay,
                              !.last_seen_at = T0 - age * SecondsPerDay]] :
        age \in {20, 10}, b1 \in {"NONE", "ACTIVE", "SUPERSEDED"}}

DetectInit ==
    /\ EmptyInit
    /\ behaviors \in DetectStores
    /\ aggregator = NoSignals
    /\ builder = NoWindows
    /\ detector = [w \in Workers |-> NotCalled]
    /\ snapshots = NoSnapshots

\* detect_drift(user_id), step 1: _preflight_checks
DetectDrift(w, u) ==
    /\ detector[w].pc = "idle"
    /\ detector' = [detector EXCEPT ![w] =
           IF preflight_checks(behaviors, drift_events, u, now)
           THEN [@ EXCEPT !.pc = "build"]
           ELSE [@ EXCEPT !.pc = "returned", !.result = << >>]]
    /\ UNCHANGED <<serviceVars, aggregator, builder, snapshots, timeouts>>

\* step 2: build_reference_and_current; every exception returns []
BuildSnapshots(w) ==
    /\ detector[w].pc = "build"
    /\ \/ detector' = [detector EXCEPT ![w] = [@ EXCEPT !.pc = "returned",
                                                        !.result = << >>]]
       \/ \E found \in Findings :
             detector' = [detector EXCEPT ![w] = [@ EXCEPT !.pc = "detect",
                                                           !.found = found,
                                                           !.k = 1]]
    /\ UNCHANGED <<serviceVars, aggregator, builder, snapshots, timeouts>>

\* the body of "for detector in self.detectors" with the exception
\* propagating to the caller of detect_drift
run_detector_uncaught(run, raises) ==
    IF raises
    THEN [run EXCEPT !.pc = "raised", !.failed = @ \cup {run.k}]
    ELSE [run EXCEPT !.k = @ + 1,
                     !.pc = IF run.k = NumDetectors THEN "aggregate" ELSE "detect",
                     !.all_signals = IF run.k \in run.found
                                     THEN Append(@, detector_signal(run.k)) ELSE @]

\* the body of "for detector in self.detectors": try detect and extend
\* all_signals, except Exception: log and go on
run_detector(run, raises) ==
    [run EXCEPT !.k = @ + 1,
                !.pc = IF run.k = NumDetectors THEN "aggregate" ELSE "detect",
                !.failed = IF raises THEN @ \cup {run.k} ELSE @,
                !.all_signals = IF ~raises /\ run.k \in run.found
                                THEN Append(@, detector_signal(run.k)) ELSE @]

\* step 3, one detector
RunDetector(w) ==
    /\ detector[w].pc = "detect"
    /\ \E raises \in BOOLEAN :
          /\ raises => Cardinality(detector[w].failed) < MaxDetectorFailures
          /\ detector' = [detector EXCEPT ![w] = run_detector(@, raises)]
    /\ UNCHANGED <<serviceVars, aggregator, builder, snapshots, timeouts>>

\* _create_events: one event per signal, all stamped with one reading of
\* the clock
stamp_events(signals, t) ==
    [i \in DOMAIN signals |-> [id |-> signals[i].id, detected_at |-> t]]

\* steps 4 and 5: aggregate, return [] on no signal, _create_events
AggregateAndCreateEvents(w) ==
    LET actionable_signals ==
            aggregate(detector[w].all_signals, default_drift_score_threshold) IN
    /\ detector[w].pc = "aggregate"
    /\ detector' = [detector EXCEPT ![w] =
           IF detector[w].all_signals = << >> \/ actionable_signals = << >>
           THEN [@ EXCEPT !.pc = "returned", !.result = << >>]
           ELSE [@ EXCEPT !.pc = "persist",
                          !.events = stamp_events(actionable_signals, now)]]
    /\ UNCHANGED <<serviceVars, aggregator, builder, snapshots, timeouts>>

\* drift_event_repo.insert for each event
insert_events(evs, u, events) ==
    evs \o [i \in DOMAIN events |->
               [user_id |-> u, detected_at |-> events[i].detected_at]]

\* the events of a list whose insert did not raise, in the list's order
Kept(events, ok) ==
    LET idx == InOrder(DOMAIN events \cap ok) IN
    [i \in DOMAIN idx |-> events[idx[i]]]

\* step 6: _persist_events, then return events.  drift_event_repo.insert
\* commits each event by itself; an insert that raises is rolled back and
\* logged, and the loop goes on to the next event
PersistEvents(w, u) ==
    /\ detector[w].pc = "persist"
    /\ \E ok \in SUBSET DOMAIN detector[w].events :
          drift_events' = insert_events(drift_events, u, Kept(detector[w].events, ok))
    /\ detector' = [detector EXCEPT ![w] = [@ EXCEPT !.pc = "returned",
                                                     !.result = detector[w].events]]
    /\ UNCHANGED <<now, behaviors, conflicts, jobs, queue, dispatched, worker,
                   scanUserTxn, claims, nonEmpty, drift_stream, streamVars,
                   aggregator, builder, snapshots, timeouts>>

\* the caller has the list; the worker is free for its next call
DetectReturn(w) ==
    /\ detector[w].pc = "returned"
    /\ detector' = [detector EXCEPT ![w] = NotCalled]
    /\ UNCHANGED <<serviceVars, aggregator, builder, snapshots, timeouts>>

\* the clock moves on while calls are under way
DetectTick ==
    /\ now < T0 + MaxClock * TickStep
    /\ now' = now + TickStep
    /\ UNCHANGED <<behaviors, conflicts, jobs, drift_events, queue, dispatched,
                   worker, scanUserTxn, claims, nonEmpty, drift_stream, streamVars,
                   pipelineVars>>

DetectNext ==
    \/ \E w \in Workers, u \in Users : DetectDrift(w, u)
    \/ \E w \in Workers : BuildSnapshots(w)
    \/ \E w \in Workers : RunDetector(w)
    \/ \E w \in Workers : AggregateAndCreateEvents(w)
    \/ \E w \in Workers, u \in Users : PersistEvents(w, u)
    \/ \E w \in Workers : DetectReturn(w)
    \/ DetectTick

DetectSpec == DetectInit /\ [][DetectNext]_vars

(***************************************************************************)
(* run_drift_scan under Celery's time limits.  The task is followed        *)
(* through detect_drift step by step: the worker that has marked its job   *)
(* RUNNING makes the call and takes up the statements after it when the    *)
(* call has returned.  task_soft_time_limit raises SoftTimeLimitExceeded,  *)
(* an Exception, at the statement the task is executing; task_time_limit   *)
(* kills the worker's process some time after that.                        *)
(***************************************************************************)
\* the task run a worker is executing
TaskOf(w) == <<w, worker[w].job_id, worker[w].retries>>

LimitInit == DetectInit

\* events = detector.detect_drift(user_id)
CallDetectDrift(w) ==
    /\ worker[w].pc = "marked"
    /\ DetectDrift(w, jobs[worker[w].job_id].user_id)

\* the steps of the call
InDetectDrift(w) ==
    /\ worker[w].pc = "marked"
    /\ \/ BuildSnapshots(w)
       \/ RunDetector(w)
       \/ AggregateAndCreateEvents(w)
       \/ PersistEvents(w, jobs[worker[w].job_id].user_id)

\* the call has returned its list to run_drift_scan
DetectDriftReturns(w) ==
    /\ worker[w].pc = "marked"
    /\ detector[w].pc = "returned"
    /\ worker' = [worker EXCEPT ![w].pc = "detected",
                                ![w].n = Len(detector[w].result)]
    /\ detector' = [detector EXCEPT ![w] = NotCalled]
    /\ UNCHANGED <<now, behaviors, conflicts, jobs, drift_events, queue, dispatched,
                   scanUserTxn, claims, nonEmpty, drift_stream, streamVars,
                   aggregator, builder, snapshots, timeouts>>

\* SoftTimeLimitExceeded is raised inside a try block of detect_drift whose
\* handler is `except Exception`: the snapshot build returns [], the
\* detector loop logs and goes on to the next detector, _persist_events
\* logs and goes on to the next event
SoftLimitSwallowed(w) ==
    LET u == jobs[worker[w].job_id].user_id IN
    /\ worker[w].pc = "marked"
    /\ detector[w].pc \in {"build", "detect", "persist"}
    /\ TaskOf(w) \notin timeouts
    /\ timeouts' = timeouts \cup {TaskOf(w)}
    /\ detector' = [detector EXCEPT ![w] =
           IF @.pc = "build" THEN [@ EXCEPT !.pc = "returned", !.result = << >>]
           ELSE IF @.pc = "detect" THEN run_detector(@, TRUE)
           ELSE [@ EXCEPT !.pc = "returned", !.result = detector[w].events]]
    /\ IF detector[w].pc = "persist"
       THEN \E ok \in SUBSET DOMAIN detector[w].events :
               /\ ok # DOMAIN detector[w].events
               /\ drift_events' = insert_events(drift_events, u,
                                                Kept(detector[w].events, ok))
       ELSE UNCHANGED drift_events
    /\ UNCHANGED <<now, behaviors, conflicts, jobs, queue, dispatched, worker,
                   scanUserTxn, claims, nonEmpty, drift_stream, streamVars,
                   aggregator, builder, snapshots>>

\* SoftTimeLimitExceeded is raised in the first `with` block: the block
\* rolls back and the outer `except Exception` takes over
SoftLimitBeforeRunning(w) ==
    /\ worker[w].pc = "loaded"
    /\ TaskOf(w) \notin timeouts
    /\ timeouts' = timeouts \cup {TaskOf(w)}
    /\ worker' = [worker EXCEPT ![w].pc = "fatal"]
    /\ UNCHANGED <<now, behaviors, conflicts, jobs, drift_events, queue, dispatched,
                   scanUserTxn, claims, nonEmpty, drift_stream, streamVars,
                   aggregator, builder, detector, snapshots>>

\* SoftTimeLimitExceeded reaches `except SoftTimeLimitExceeded` of
\* run_drift_scan (raised in the pre-flight checks, in the aggregation, in
\* _create_events or in the update to DONE): the job is marked FAILED, the
\* exception is raised again, the outer handler marks the job FAILED once
\* more and Celery retries the task
SoftLimitHandled(w) ==
    /\ \/ worker[w].pc = "marked" /\ detector[w].pc \in {"idle", "aggregate", "returned"}
       \/ worker[w].pc = "detected"
    /\ TaskOf(w) \notin timeouts
    /\ timeouts' = timeouts \cup {TaskOf(w)}
    /\ jobs' = update_status(jobs, worker[w].job_id, "FAILED", now)
    /\ queue' = Retry(queue, worker[w].job_id, worker[w].retries)
    /\ worker' = [worker EXCEPT ![w] = Idle]
    /\ detector' = [detector EXCEPT ![w] = NotCalled]
    /\ UNCHANGED <<now, behaviors, conflicts, drift_events, dispatched,
                   scanUserTxn, claims, nonEmpty, drift_stream, streamVars,
                   aggregator, builder, snapshots>>

\* the process that runs the task is gone; with acks_late the message of
\* the task is acknowledged or handed back to the queue
ProcessGone(w, requeue) ==
    /\ worker' = [worker EXCEPT ![w] = Idle]
    /\ detector' = [detector EXCEPT ![w] = NotCalled]
    /\ queue' = IF requeue
                THEN [queue EXCEPT ![<<worker[w].job_id, worker[w].retries>>] = @ + 1]
                ELSE queue
    /\ timeouts' = timeouts \ {TaskOf(w)}
    /\ UNCHANGED <<now, behaviors, conflicts, jobs, drift_events, dispatched,
                   scanUserTxn, claims, nonEmpty, drift_stream, streamVars,
                   aggregator, builder, snapshots>>

\* task_time_limit, one minute after the soft limit: the task is still
\* building snapshots or running detectors and its process is killed.  (The
\* other statements of the task, its handlers with one UPDATE and a commit
\* each among them, are taken to end within that minute.)
HardTimeLimit(w) ==
    /\ worker[w].pc = "marked"
    /\ detector[w].pc \in {"build", "detect"}
    /\ TaskOf(w) \in timeouts
    /\ \E requeue \in BOOLEAN : ProcessGone(w, requeue)

\* the worker's process dies while it runs a task (reject_on_worker_lost
\* hands the message back to the queue)
WorkerLost(w) ==
    /\ worker[w].pc # "idle"
    /\ ProcessGone(w, TRUE)

LimitNext ==
    \/ \E tier \in {"active", "moderate"} : ScanTier(tier)
    \/ ProcessPendingJobs
    \/ \E w \in Workers, j \in JobIds, r \in Retries : RunSkipped(w, j, r)
    \/ \E w \in Workers, j \in JobIds, r \in Retries : RunLoad(w, j, r)
    \/ \E w \in Workers : RunMarkRunning(w)
    \/ \E w \in Workers : RunFatal(w)
    \/ \E w \in Workers : CallDetectDrift(w)
    \/ \E w \in Workers : InDetectDrift(w)
    \/ \E w \in Workers : DetectDriftReturns(w)
    \/ \E w \in Workers : ScanDone(w)
    \/ \E w \in Workers : SoftLimitSwallowed(w)
    \/ \E w \in Workers : SoftLimitBeforeRunning(w)
    \/ \E w \in Workers : SoftLimitHandled(w)
    \/ \E w \in Workers : HardTimeLimit(w)
    \/ \E w \in Workers : WorkerLost(w)

\* a worker that is not killed carries its task through
LimitFairness ==
    /\ \A w \in Workers, j \in JobIds, r \in Retries :
          /\ WF_vars(RunSkipped(w, j, r))
          /\ WF_vars(RunLoad(w, j, r))
    /\ \A w \in Workers :
          /\ WF_vars(RunMarkRunning(w))
          /\ WF_vars(RunFatal(w))
          /\ WF_vars(CallDetectDrift(w))
          /\ WF_vars(InDetectDrift(w))
          /\ WF_vars(DetectDriftReturns(w))
          /\ WF_vars(ScanDone(w))

LimitSpec == LimitInit /\ [][LimitNext]_vars /\ LimitFairness

(***************************************************************************)
(* The consumer and the handler together: RedisConsumer._process_event     *)
(* hands the payload of the batch's next message to handle_event and acks  *)
(* the message when handle_event returns.  The payload of a message is     *)
(* drawn when the message is processed.                                    *)
(***************************************************************************)
\* the scan-jobs table after scan_moderate_users has enqueued a job for
\* the stored users and the worker has run it to DONE at time t
ScannedJobs(bs, t) ==
    update_status(update_status(enqueue_for_tier(bs, << >>, "moderate", t),
                                1, "RUNNING", t), 1, "DONE", t)

ConsumeInit ==
    /\ QuietInit
    /\ behaviors = [k \in Users \X BehaviorIds |->
                        IF k[2] \in SeedBehaviorIds THEN SeedRow ELSE NoRow]
    /\ jobs \in {<< >>, ScannedJobs(behaviors, T0)}
    /\ aggregator = NoSignals
    /\ builder = NoWindows
    /\ detector = [w \in Workers |-> NotCalled]
    /\ snapshots = NoSnapshots

\* _process_event: parse, handle_event, then _ack_event; an exception of
\* handle_event is logged and the message is left unacked
ProcessEvent(e) ==
    LET r == handle_event(Store, e, now)
        m == Head(stream.batch) IN
    /\ stream.batch # << >>
    /\ e.event_type = "behavior.reinforced" /\ e.count = 0
          => behaviors[<<e.user_id, e.behavior_id>>].reinforcement_count < MaxCount
    /\ Len(r.jobs) <= MaxJobs
    /\ behaviors' = r.behaviors
    /\ conflicts' = r.conflicts
    /\ jobs' = r.jobs
    /\ stream' = [entries |-> IF r.raised THEN stream.entries
                              ELSE ack_event(consumer, stream.entries, m),
                  batch |-> Tail(stream.batch),
                  deadletter |-> stream.deadletter]
    /\ consumer' = IF r.raised THEN consumer
                   ELSE [consumer EXCEPT !.handled = @ \cup {m}]
    /\ \E kept \in Slices(handler.processed_events) :
          handler' = handle_event_id(handler, m, r.raised, kept)
    /\ UNCHANGED <<now, drift_events, queue, dispatched, worker, scanUserTxn,
                   claims, nonEmpty, drift_stream, reaper, pipelineVars>>

ConsumeNext ==
    \/ \E m \in Messages : XAdd(m)
    \/ ConsumeBatch
    \/ SignalHandler
    \/ LoopExit
    \/ \E e \in Events : ProcessEvent(e)
    \/ Tick

ConsumeSpec == ConsumeInit /\ [][ConsumeNext]_vars

(***************************************************************************)
(* IntensityShiftDetector and ContextShiftDetector on the two snapshots of *)
(* one target, followed by the rest of detect_drift.  A window holds the   *)
(* target's behaviors as <<context, credibility>> pairs, all ACTIVE, the   *)
(* credibility in hundredths.  With credibilities 0.25 and 0.75 and up to  *)
(* four behaviors per window the float averages and their difference       *)
(* compare with the thresholds exactly as the rationals do, so the         *)
(* detector is computed in integers.  drift_score is in tenths, rounded    *)
(* down for the intensity signal, which leaves its comparisons with the    *)
(* thresholds and its place in the stable sort as they are.                *)
(***************************************************************************)
Target == "python"
Contexts == {"general", "data science", "machine learning"}
Credibilities == {25, 75}
DeltaThresholds == {25, 50}

\* the windows of at most n behaviors
Windows(n) == {w \in SUBSET (Contexts \X Credibilities) : Cardinality(w) <= n}

RECURSIVE SumCredibility(_)
SumCredibility(window) ==
    IF window = {} THEN 0
    ELSE LET b == CHOOSE x \in window : TRUE IN b[2] + SumCredibility(window \ {b})

Abs(x) == IF x < 0 THEN 0 - x ELSE x

\* abs(cur_cred - ref_cred) of the two get_average_credibility values,
\* times the two behavior counts
credibility_delta(reference, current) ==
    Abs(SumCredibility(current) * Cardinality(reference)
        - SumCredibility(reference) * Cardinality(current))

\* IntensityShiftDetector.detect for the target: no signal unless the
\* target is in both windows, "if delta < self.delta_threshold: continue",
\* else a signal whose drift_score is the delta
intensity_shift_detect(reference, current, delta_threshold) ==
    LET counts == Cardinality(reference) * Cardinality(current) IN
    IF reference = {} \/ current = {} THEN << >>
    ELSE IF credibility_delta(reference, current) < delta_threshold * counts THEN << >>
    ELSE <<[drift_type |-> "INTENSITY_SHIFT", shift_type |-> "NONE",
            drift_score |-> (credibility_delta(reference, current) * 10) \div (100 * counts),
            affected_targets |-> <<Target>>]>>

\* _build_context_map for the target
build_context_map(window) == {b[1] : b \in window}

is_expansion(ref_contexts, cur_contexts) ==
    "general" \notin ref_contexts /\ "general" \in cur_contexts

is_contraction(ref_contexts, cur_contexts) ==
    "general" \in ref_contexts /\ "general" \notin cur_contexts

\* _create_context_signal: min(diversity_change / 5.0, 1.0), times 1.5 and
\* capped again when "general" is in either set
create_context_signal(ref_contexts, cur_contexts, shift_type) ==
    LET diversity_change == Abs(Cardinality(cur_contexts) - Cardinality(ref_contexts))
        drift_score == Min({2 * diversity_change, 10}) IN
    [drift_type |-> IF shift_type = "EXPANSION" THEN "CONTEXT_EXPANSION"
                    ELSE "CONTEXT_CONTRACTION",
     shift_type |-> shift_type,
     drift_score |-> IF "general" \in ref_contexts \cup cur_contexts
                     THEN Min({(drift_score * 3) \div 2, 10}) ELSE drift_score,
     affected_targets |-> <<Target>>]

\* ContextShiftDetector.detect for the target
context_shift_detect(reference, current) ==
    LET ref_contexts == build_context_map(reference)
        cur_contexts == build_context_map(current) IN
    IF reference = {} \/ current = {} THEN << >>
    ELSE IF is_expansion(ref_contexts, cur_contexts)
    THEN <<create_context_signal(ref_contexts, cur_contexts, "EXPANSION")>>
    ELSE IF is_contraction(ref_contexts, cur_contexts)
    THEN <<create_context_signal(ref_contexts, cur_contexts, "CONTRACTION")>>
    ELSE << >>

\* all_signals.extend(signals): the signals get their identity
extend(all_signals, signals) ==
    all_signals \o [i \in DOMAIN signals |->
                       [id |-> Len(all_signals) + i,
                        drift_type |-> signals[i].drift_type,
                        shift_type |-> signals[i].shift_type,
                        drift_score |-> signals[i].drift_score,
                        affected_targets |-> signals[i].affected_targets]]

\* a user with sufficient data, the two snapshots built, the detectors
\* before IntensityShiftDetector done without a signal
ShiftInit ==
    /\ EmptyInit
    /\ behaviors \in {bs \in DetectStores :
                         \A u \in Users : validate_sufficient_data(bs, u, T0)}
    /\ aggregator = NoSignals
    /\ builder = NoWindows
    /\ detector = [w \in Workers |-> NotCalled]
    /\ \E th \in DeltaThresholds :
          \E reference \in Windows(MaxWindowBehaviors), current \in Windows(MaxWindowBehaviors) :
              snapshots = [NoSnapshots EXCEPT !.pc = "built",
                                              !.intensity_delta_threshold = th,
                                              !.reference = reference,
                                              !.current = current]

\* the fourth detector of the loop
IntensityShiftDetect ==
    /\ snapshots.pc = "built"
    /\ snapshots' = [snapshots EXCEPT
           !.pc = "intensity",
           !.all_signals = extend(@, intensity_shift_detect(snapshots.reference,
                                         snapshots.current,
                                         snapshots.intensity_delta_threshold))]
    /\ UNCHANGED <<serviceVars, aggregator, builder, detector, timeouts>>

\* the fifth detector of the loop
ContextShiftDetect ==
    /\ snapshots.pc = "intensity"
    /\ snapshots' = [snapshots EXCEPT
           !.pc = "detected",
           !.all_signals = extend(@, context_shift_detect(snapshots.reference,
                                                          snapshots.current))]
    /\ UNCHANGED <<serviceVars, aggregator, builder, detector, timeouts>>

\* DriftEvent.from_signal for each actionable signal
shift_events(signals, t) ==
    [i \in DOMAIN signals |-> [drift_type |-> signals[i].drift_type,
                               shift_type |-> signals[i].shift_type,
                               drift_score |-> signals[i].drift_score,
                               affected_targets |-> signals[i].affected_targets,
                               detected_at |-> t]]

\* steps 4 to 6 of detect_drift: aggregate, _create_events, _persist_events
PersistShiftEvents(u) ==
    LET actionable_signals ==
            aggregate(snapshots.all_signals, default_drift_score_threshold)
        events == shift_events(actionable_signals, now) IN
    /\ snapshots.pc = "detected"
    /\ snapshots' = [snapshots EXCEPT !.pc = "returned", !.events = events]
    /\ drift_events' = insert_events(drift_events, u, events)
    /\ UNCHANGED <<now, behaviors, conflicts, jobs, queue, dispatched, worker,
                   scanUserTxn, claims, nonEmpty, drift_stream, streamVars,
                   aggregator, builder, detector, timeouts>>

ShiftNext ==
    \/ IntensityShiftDetect
    \/ ContextShiftDetect
    \/ \E u \in Users : PersistShiftEvents(u)

ShiftSpec == ShiftInit /\ [][ShiftNext]_vars

(***************************************************************************)
(* Properties.                                                             *)
(***************************************************************************)
NonTerminalJobs(js, u) ==
    {j \in VisibleJobs(js) : js[j].user_id = u /\ js[j].status \in {"PENDING", "RUNNING"}}

HandlerTriggers == {"behavior.created", "behavior.reinforced", "behavior.superseded",
                    "behavior.conflict.resolved"}
SchedulerTriggers == {"scheduled_active", "scheduled_moderate"}

\* the step appends a job row for user u under one of the triggers
Enqueues(js, js1, triggers, u) ==
    \E j \in (Len(js) + 1)..Len(js1) :
        js1[j].user_id = u /\ js1[j].trigger_event \in triggers

\* the scan-enqueue gate as the specification states it
StandardGate(bs, js, u, t) ==
    /\ NonTerminalJobs(js, u) = {}
    /\ \/ get_last_completed_scan(js, u) = NULL
       \/ t - get_last_completed_scan(js, u) >= scan_cooldown_seconds
    /\ count_active_behaviors(bs, u) >= min_behaviors_for_drift

\* the step applies an inbound event of user u to the store
AppliesEvent(u) ==
    \/ \E b \in BehaviorIds : behaviors'[<<u, b>>] # behaviors[<<u, b>>]
    \/ \E c \in ConflictIds : <<u, c>> \in conflicts' \ conflicts
    \/ Enqueues(jobs, jobs', HandlerTriggers, u)

\* C1: in every state each user has at most one committed scan job whose
\* status is PENDING or RUNNING.
C1_EnqueueExclusivity ==
    \A u \in Users : Cardinality(NonTerminalJobs(jobs, u)) <= 1

\* C2: for every job, at most one run_drift_scan execution ever marks it
\* RUNNING, however often the job was dispatched.
C2_NoJobClaimedTwice ==
    \A j \in JobIds : claims[j] <= 1

\* C3: at most one worker is inside DriftDetector.detect_drift for a given
\* user at a time.
C3_OneDetectionPerUser ==
    \A v, w \in Workers :
        (/\ v # w
         /\ worker[v].pc = "detecting"
         /\ worker[w].pc = "detecting")
        => jobs[worker[v].job_id].user_id # jobs[worker[w].job_id].user_id

\* C4: a job's status changes only PENDING->RUNNING, RUNNING->DONE,
\* RUNNING->FAILED or PENDING->SKIPPED; so a DONE, FAILED or SKIPPED job
\* keeps its status and no job goes from PENDING to DONE or FAILED.
C4_StatusTransitions ==
    [][\A j \in 1..Len(jobs) :
          jobs'[j].status # jobs[j].status
          => <<jobs[j].status, jobs'[j].status>> \in
                {<<"PENDING", "RUNNING">>, <<"RUNNING", "DONE">>,
                 <<"RUNNING", "FAILED">>, <<"PENDING", "SKIPPED">>}]_vars

\* C5: a message whose handling raised and that was therefore not acked is
\* eventually delivered again or moved to the dead-letter stream.
C5_FailedMessageLeavesPending ==
    \A m \in Messages :
        (/\ stream.entries[m].state = "pending"
         /\ \A i \in 1..Len(stream.batch) : stream.batch[i] # m)
        ~> (\/ stream.entries[m].times_delivered > 1
            \/ stream.entries[m].state = "dead")

\* C6: for every inbound event, applying it to the store a second time
\* (by a process that has not seen its id) leaves the behaviors, conflicts
\* and scan-jobs tables as the first application left them.
C6_HandlerIdempotent ==
    \A e \in Events :
        LET once == handle_event(Store, e, now)
            twice == handle_event([behaviors |-> once.behaviors,
                                   conflicts |-> once.conflicts,
                                   jobs |-> once.jobs], e, now)
        IN  /\ twice.behaviors = once.behaviors
            /\ twice.conflicts = once.conflicts
            /\ twice.jobs = once.jobs

\* C7: when the pool runs a retry of a scan task (retries > 0) for a job
\* that exists, the execution goes on to run the detection pipeline for the
\* job: it is not returned as skipped.
C7_RetryRunsDetection ==
    [][\A j \in JobIds, r \in Retries \ {0} :
          (queue'[<<j, r>>] < queue[<<j, r>>] /\ j \in VisibleJobs(jobs))
          => \E w \in Workers : /\ worker'[w].pc = "loaded"
                                /\ worker'[w].job_id = j
                                /\ worker'[w].retries = r]_vars

C9_HandlerGate ==
    [][\A u \in Users :
          AppliesEvent(u)
          => (Enqueues(jobs, jobs', HandlerTriggers, u)
              <=> StandardGate(behaviors', jobs, u, now))]_vars

\* C10: a scheduled tier run enqueues a job for a user only if the user
\* passes all three conditions of the scan-enqueue gate, the minimum number
\* of ACTIVE behaviors included.
C10_SchedulerGate ==
    [][\A u \in Users :
          Enqueues(jobs, jobs', SchedulerTriggers, u)
          => StandardGate(behaviors, jobs, u, now)]_vars

C12_SignalledBatchAcked ==
    \A m \in consumer.handled : stream.entries[m].state = "acked"

\* C13: every message the reaper moves to the dead-letter stream and acks
\* was itself dead (idle beyond the threshold, delivered at least
\* dead_letter_max_delivery_attempts times) in the XPENDING reply the
\* reaper is working through, also when other consumers claim entries
\* meanwhile.
C13_OnlyDeadEntriesReaped ==
    [][\A m \in Messages :
          stream.entries[m].state # "dead" /\ stream'.entries[m].state = "dead"
          => \E i \in DOMAIN reaper.pending_entries :
                 /\ reaper.pending_entries[i].message_id = m
                 /\ is_dead(reaper.pending_entries[i])]_vars

\* the consumer has left _reconnect after max_retries failed attempts
GaveUp ==
    /\ consumer.pc # "reconnect"
    /\ consumer.attempt = reconnect_max_retries

\* C14: after a connection error the consumer makes at most
\* reconnect_max_retries (5) reconnect attempts, sleeping 1 s before the
\* first and twice the previous delay, capped at 30 s, before each next one;
\* once all of them have failed it is stopped (running = false) and reads
\* no further message from the stream.
C14_ReconnectBounded ==
    /\ [](/\ Len(consumer.slept) <= reconnect_max_retries
          /\ \A i \in DOMAIN consumer.slept :
                 /\ consumer.slept[i] <= reconnect_max_delay
                 /\ consumer.slept[i] =
                        IF i = 1 THEN 1
                        ELSE Min({2 * consumer.slept[i - 1], reconnect_max_delay}))
    /\ [](GaveUp => ~consumer.running)
    /\ [][GaveUp => \A m \in Messages :
                        stream'.entries[m].times_delivered
                            = stream.entries[m].times_delivered]_vars

\* all five attempts failed, the consumer gave up, and a message is waiting
\* in the stream unread
C14_GaveUpWithUnreadMessage ==
    /\ GaveUp
    /\ Len(consumer.slept) = reconnect_max_retries
    /\ consumer.slept[reconnect_max_retries] = 16
    /\ \E m \in Messages : stream.entries[m].state = "new"

\* the identities of the signals of a list
Ids(signals) == {signals[i].id : i \in DOMAIN signals}

\* the signals of a list that name a target
Covering(signals, target) == {i \in DOMAIN signals : Covers(signals[i], target)}

\* C15: for every raw list and every target, the result of aggregate holds
\* at most one signal whose affected_targets include the target, and that
\* signal's score is the highest score of the raw signals that include it.
C15_OneBestSignalPerTarget ==
    aggregator.pc # "raw" =>
        \A t \in Targets :
            LET out == Covering(aggregator.actionable, t) IN
            /\ Cardinality(out) <= 1
            /\ \A i \in out :
                   aggregator.actionable[i].drift_score
                       = Max({aggregator.signals[k].drift_score :
                                 k \in Covering(aggregator.signals, t)})

\* C16: aggregate applied to its own result returns the same signals as
\* the first application, in any order.
C16_AggregateIdempotent ==
    aggregator.pc = "again" =>
        Ids(aggregator.again) = Ids(aggregator.actionable)

\* C17: no signal that aggregate returns has a drift_score below the
\* aggregator's drift_score_threshold.
C17_ResultAtLeastThreshold ==
    /\ \A i \in DOMAIN aggregator.actionable :
           aggregator.actionable[i].drift_score >= aggregator.drift_score_threshold
    /\ \A i \in DOMAIN aggregator.again :
           aggregator.again[i].drift_score >= aggregator.drift_score_threshold

\* a raw list with a signal below the threshold and one at or above it has
\* been aggregated and something was returned
C17_MixedListAggregated ==
    /\ aggregator.pc = "aggregated"
    /\ aggregator.actionable # << >>
    /\ \E i \in DOMAIN aggregator.signals :
           /\ aggregator.signals[i].affected_targets # << >>
           /\ aggregator.signals[i].drift_score < aggregator.drift_score_threshold
           /\ aggregator.signals[i].drift_score >= moderate_drift_score

C19_ReinforcementCountMonotonic ==
    [][\A k \in Users \X BehaviorIds :
          behaviors[k] # NoRow /\ behaviors'[k] # NoRow
          => behaviors'[k].reinforcement_count >= behaviors[k].reinforcement_count]_vars

\* C20: the stored state of a behavior only ever changes from ACTIVE to
\* SUPERSEDED: once a row is SUPERSEDED no later event, a behavior.created
\* for the same id included, makes it ACTIVE again.
C20_SupersededIsFinal ==
    [][\A k \in Users \X BehaviorIds :
          behaviors[k] # NoRow /\ behaviors[k].state = "SUPERSEDED"
          => behaviors'[k] # NoRow /\ behaviors'[k].state = "SUPERSEDED"]_vars

SucceededSignals(run) ==
    LET Succeeded(d) == d \in run.found \ run.failed IN
    [i \in 1..Cardinality({d \in Detectors : Succeeded(d)}) |->
        detector_signal(CHOOSE d \in Detectors :
            /\ Succeeded(d)
            /\ Cardinality({e \in Detectors : Succeeded(e) /\ e < d}) = i - 1)]

InsufficientData(u) ==
    \/ count_active_behaviors(behaviors, u) < min_behaviors_for_drift
    \/ get_earliest_behavior_date(behaviors, u) = NULL
    \/ now - get_earliest_behavior_date(behaviors, u) < min_days_of_history * SecondsPerDay

C23_InsufficientDataReturnsEmpty ==
    \A u \in Users :
        InsufficientData(u) =>
            /\ \A w \in Workers :
                  /\ detector[w].pc \in {"idle", "returned"}
                  /\ detector[w].k = 0
                  /\ detector[w].result = << >>
            /\ \A i \in DOMAIN drift_events : drift_events[i].user_id # u

\* detect_drift has returned for a user with min_behaviors_for_drift - 1
\* active behaviors, and for one with too short a history
C23_RejectedOneBelowMinimum ==
    \E w \in Workers, u \in Users :
        /\ detector[w].pc = "returned"
        /\ count_active_behaviors(behaviors, u) = min_behaviors_for_drift - 1
        /\ now - get_earliest_behavior_date(behaviors, u) >= min_days_of_history * SecondsPerDay

\* C24: a behavior.created event with user_id and behavior_id and no
\* optional field is handled successfully: the behavior is stored with the
\* defaults (reinforcement_count 1, state ACTIVE, last_seen_at = created_at,
\* the default polarity) and the message is acked.
DefaultRow(t) ==
    [state |-> "ACTIVE", reinforcement_count |-> 1, polarity |-> "NEUTRAL",
     created_at |-> t, last_seen_at |-> t]

C24_CreatedWithDefaultsHandled ==
    [][\A e \in Events :
          (/\ e.event_type = "behavior.created" /\ e.polarity = "" /\ e.count = 0
           /\ behaviors[<<e.user_id, e.behavior_id>>] = NoRow
           /\ consumer.redis_client = "connected"
           /\ ProcessEvent(e))
          => /\ behaviors'[<<e.user_id, e.behavior_id>>] = DefaultRow(now)
             /\ stream'.entries[Head(stream.batch)].state = "acked"]_vars

\* C25: a behavior.reinforced event for a behavior that is not stored
\* creates no row, enqueues no scan job, and its message is acked.
C25_ReinforcedAbsentDroppedAndAcked ==
    [][\A e \in Events :
          (/\ e.event_type = "behavior.reinforced"
           /\ behaviors[<<e.user_id, e.behavior_id>>] = NoRow
           /\ ProcessEvent(e))
          => /\ behaviors' = behaviors
             /\ jobs' = jobs
             /\ stream'.entries[Head(stream.batch)].state = "acked"]_vars

\* C26: handling a behavior.conflict.resolved event with user_id and
\* conflict_id inserts the conflict row, and enqueues a scan of priority
\* HIGH when the enqueue gate passes.
C26_ConflictRowInserted ==
    [][\A e \in Events :
          (e.event_type = "behavior.conflict.resolved" /\ ProcessEvent(e))
          => /\ <<e.user_id, e.conflict_id>> \in conflicts'
             /\ StandardGate(behaviors, jobs, e.user_id, now)
                   => \E j \in (Len(jobs) + 1)..Len(jobs') :
                         /\ jobs'[j].user_id = e.user_id
                         /\ jobs'[j].priority = "HIGH"]_vars

\* C27: a weak signal (0.3 <= drift_score < 0.6) is actionable: with a
\* drift_score_threshold of at most 0.3, every raw signal that scores at
\* least 0.3 and is the best signal of one of its targets is in the output
\* of aggregate.
WinsTarget(signals, signal) ==
    \E i \in DOMAIN signal.affected_targets :
        Head(sort_by_score(target_group(signals, signal.affected_targets[i]))).id = signal.id

C27_WeakSignalOutput ==
    (aggregator.pc # "raw" /\ aggregator.drift_score_threshold <= weak_drift_score)
    => \A i \in DOMAIN aggregator.signals :
           (/\ aggregator.signals[i].drift_score >= weak_drift_score
            /\ WinsTarget(aggregator.signals, aggregator.signals[i]))
           => \E k \in DOMAIN aggregator.actionable :
                  aggregator.actionable[k].id = aggregator.signals[i].id

\* C28: a user is in the moderate tier of a classification only if the
\* maximum last_seen_at of the user's behaviors is older than the active
\* threshold and within the moderate threshold, so no user is in both the
\* active and the moderate tier.
MaxLastSeenAt(bs, u) == Max({bs[<<u, b>>].last_seen_at : b \in ActiveIds(bs, u)})

C28_TiersByMaxLastSeen ==
    LET active_since == now - active_user_days_threshold * SecondsPerDay
        moderate_since == now - moderate_user_days_threshold * SecondsPerDay
        users == get_all_scannable_users(behaviors, active_since, moderate_since) IN
    /\ users.active \cap users.moderate = {}
    /\ \A u \in users.moderate :
           /\ MaxLastSeenAt(behaviors, u) < active_since
           /\ MaxLastSeenAt(behaviors, u) >= moderate_since

\* C29: for a target in both windows, a credibility delta equal to
\* intensity_delta_threshold yields no intensity-shift signal and every
\* delta above the threshold yields one.
IntensitySignals ==
    {i \in DOMAIN snapshots.all_signals :
        snapshots.all_signals[i].drift_type = "INTENSITY_SHIFT"}

C29_NoSignalAtThreshold ==
    LET counts == Cardinality(snapshots.reference) * Cardinality(snapshots.current)
        delta == credibility_delta(snapshots.reference, snapshots.current) IN
    (/\ snapshots.pc \in {"intensity", "detected", "returned"}
     /\ snapshots.reference # {} /\ snapshots.current # {})
    => /\ delta = snapshots.intensity_delta_threshold * counts => IntensitySignals = {}
       /\ delta > snapshots.intensity_delta_threshold * counts
             => Cardinality(IntensitySignals) = 1

\* C30: when the target's reference contexts are {"data science"} and its
\* current contexts {"general"}, detect_drift persists a context-expansion
\* event with shift_type EXPANSION for the target.
C30_ExpansionEventPersisted ==
    (/\ snapshots.pc = "returned"
     /\ build_context_map(snapshots.reference) = {"data science"}
     /\ build_context_map(snapshots.current) = {"general"})
    => /\ drift_events # << >>
       /\ \E i \in DOMAIN snapshots.events :
             /\ snapshots.events[i].drift_type = "CONTEXT_EXPANSION"
             /\ snapshots.events[i].shift_type = "EXPANSION"
             /\ snapshots.events[i].affected_targets = <<Target>>

C33_NotFoundFailsWithoutRetry ==
    [][\A w \in Workers :
          (RunFatal(w) /\ worker[w].job_id \notin VisibleJobs(jobs)) =>
              /\ queue' = queue
              /\ jobs' = jobs]_vars
\* C35: the task dispatched by scan_user finds the job scan_user created:
\* it never takes the not-found path for it, and its outer handler never
\* marks that job FAILED (no detection has run for the job at that point).
C35_ScanUserJobVisibleToItsTask ==
    [][/\ \A w \in Workers, j \in JobIds, r \in Retries :
             RunNotFound(w, j, r) =>
                 (j \notin DOMAIN jobs \/ jobs[j].trigger_event # "manual_trigger")
       /\ \A w \in Workers :
             (RunFatal(w) /\ jobs[worker[w].job_id].trigger_event = "manual_trigger")
                 => jobs' = jobs]_vars
IsPending(j) == j \in VisibleJobs(jobs) /\ jobs[j].status = "PENDING"

C36_PendingJobLeavesPending ==
    \A j \in JobIds : IsPending(j) ~> ~IsPending(j)
\* C37: every job that is marked RUNNING eventually becomes DONE or FAILED,
\* also when the process that executes it is killed by the hard time limit
\* or is lost.
IsRunning(j) == j \in VisibleJobs(jobs) /\ jobs[j].status = "RUNNING"

C37_RunningJobEnds ==
    \A j \in JobIds : IsRunning(j) ~> ~IsRunning(j)
\* C38: handling one event is all-or-nothing for the store: when
\* handle_event raises (in the scan-enqueue gate, after the change was
\* written in the transaction) the behaviors, the conflicts and the scan
\* jobs are as before the event; when it returns, the change and the job
\* the gate enqueued are committed together.
C38_HandlingIsAllOrNothing ==
    [][\A e \in Events :
          ProcessEvent(e) =>
              IF handle_event(Store, e, now).raised
              THEN /\ behaviors' = behaviors
                   /\ conflicts' = conflicts
                   /\ jobs' = jobs
              ELSE /\ behaviors' = handle_event(Store, e, now).behaviors
                   /\ conflicts' = handle_event(Store, e, now).conflicts
                   /\ jobs' = handle_event(Store, e, now).jobs]_vars

\* the handler has raised for a message of the batch (the message is
\* pending, out of the batch and not handled, with the consumer running)
\* and the behavior the event names is not in the store
C38_RaisedAndRolledBack ==
    \E m \in Messages :
        /\ consumer.running
        /\ stream.entries[m].state = "pending"
        /\ m \notin consumer.handled
        /\ \A i \in DOMAIN stream.batch : stream.batch[i] # m
        /\ \A u \in Users, b \in EventBehaviorIds : behaviors[<<u, b>>] = NoRow
        /\ jobs = << >>
\* C39: an event id is in the seen-id set only after its handler returned
\* without raising: an id whose latest handling raised is not in the set,
\* so the next delivery of it runs the handler again.
C39_RaisedEventNotMarked ==
    handler.failed \cap handler.processed_events = {}

\* one id was handled again and marked after its handling had raised, and
\* the handling of another id has raised and that id is not in the set
C39_RaisedThenProcessedAgain ==
    /\ handler.recovered \cap handler.processed_events # {}
    /\ handler.failed # {}

\* C40: when the set has reached its cap, marking a new id evicts the
\* oldest half: the max_processed_cache / 2 ids marked most recently are
\* still in the set after the eviction.
C40_EvictionKeepsMostRecent ==
    [][(/\ Cardinality(handler.processed_events) >= max_processed_cache
        /\ handler'.processed_events # handler.processed_events)
       => \A i \in DOMAIN handler.order :
              i > Len(handler.order) - max_processed_cache \div 2
                  => handler.order[i] \in handler'.processed_events]_vars
====
